---------------------------- MODULE Spec2Model ----------------------------
(***************************************************************************)
(* Model of package OTP (HOTP / TOTP one-time passwords, RFC 4226 / 6238). *)
(*                                                                         *)
(* A caller obtains a OneTimePassword configuration, either from New or by *)
(* writing the struct literal, and then calls its methods.  No method      *)
(* changes the configuration, so the state is the configuration plus the   *)
(* record of the call just returned.                                       *)
(*                                                                         *)
(* Representation                                                          *)
(*   - strings are sequences of one-character strings;                     *)
(*   - byte slices are sequences of 0..255;                                *)
(*   - a uint64 counter is the sequence of its 8 bytes, most significant   *)
(*     first, as binary.Write(mac, binary.BigEndian, count) writes it;     *)
(*   - a time.Time is [sec, nsec]: whole seconds since the Unix epoch and  *)
(*     nanoseconds 0..999999999 within the second;                         *)
(*   - a time.Duration is a number of milliseconds (Second = 1000);        *)
(*   - hmacSum is the table of the HMAC values of the keys and counters    *)
(*     the calls pass;                                                     *)
(*   - the float64 arithmetic of Duration.Seconds() and of the division in *)
(*     steps is modelled by integer arithmetic that gives the same result: *)
(*     see secondsToUint64 and quotient.                                   *)
(***************************************************************************)
EXTENDS Integers, Sequences, FiniteSets, TLC

VARIABLES otp, err, pc, call

vars == <<otp, err, pc, call>>

---------------------------------------------------------------------------
(* Bounds of the model *)

\* the clock is read in the seconds 0..MaxSec after the epoch (and in LateSecs)
MaxSec == 2
\* digit counts 0..MaxDigitArg are passed to New
MaxDigitArg == 11
\* counters 0..MaxCount are passed to HOTP
MaxCount == 54
\* longest string handed to PPrint
MaxCodeLen == 7
\* base32 secrets: at most MaxData data characters, then at most MaxPad '='
MaxData == 9
MaxPad == 6

---------------------------------------------------------------------------
(* Helpers: numbers, bytes, strings *)

\* time.Second in the unit of the model's durations, the millisecond
Second == 1000

\* nanoseconds per second
NanosPerSec == 1000000000

RECURSIVE Pow10(_)
\* math.Pow(10, d) for a non-negative integer d
Pow10(d) == IF d = 0 THEN 1 ELSE 10 * Pow10(d - 1)

\* n copies of x
Rep(x, n) == [i \in 1..n |-> x]

\* s[from:to] of Go (0-based, to exclusive)
Slice(s, from, to) == [i \in 1..(to - from) |-> s[from + i]]

\* the 8 big-endian bytes of the uint64 n, for n below 2^31
U64(n) ==
    <<0, 0, 0, 0, (n \div 16777216) % 256, (n \div 65536) % 256, (n \div 256) % 256,
      n % 256>>

DigitChars == <<"0", "1", "2", "3", "4", "5", "6", "7", "8", "9">>

RECURSIVE FormatUint(_)
\* strconv.FormatUint(n, 10)
FormatUint(n) ==
    IF n < 10 THEN <<DigitChars[n + 1]>>
    ELSE FormatUint(n \div 10) \o <<DigitChars[(n % 10) + 1]>>

\* fmt.Sprintf("%06s", s): s padded on the left with zeros to width 6
Sprintf06s(s) == IF Len(s) >= 6 THEN s ELSE Rep("0", 6 - Len(s)) \o s

RECURSIVE TrimLeft(_)
TrimLeft(s) == IF s # <<>> /\ s[1] = " " THEN TrimLeft(Tail(s)) ELSE s

RECURSIVE TrimRight(_)
TrimRight(s) ==
    IF s # <<>> /\ s[Len(s)] = " " THEN TrimRight(SubSeq(s, 1, Len(s) - 1)) ELSE s

\* strings.TrimSpace
TrimSpace(s) == TrimRight(TrimLeft(s))

---------------------------------------------------------------------------
(* The configuration *)

Hashes == {"sha1", "sha256", "sha512"}

\* time.Unix(0, 0)
Epoch == [sec |-> 0, nsec |-> 0]

\* the zero time.Time, January 1 of year 1
ZeroTime == "0001-01-01 00:00:00 UTC"

\* the zero value OneTimePassword{} (named result of New on its error paths)
ZeroOTP == [Digit |-> 0, TimeStep |-> 0, BaseTime |-> ZeroTime, Hash |-> "nil"]

\* New with the lower limit off by one (digit <= 6 for digit < 6)
NewLow(digit) ==
    IF digit <= 6
    THEN [otp |-> ZeroOTP, err |-> "minimum of 6 digits is required for a valid HTOP code"]
    ELSE IF digit > 9
    THEN [otp |-> ZeroOTP, err |-> "HTOP code cannot be longer than 9 digits"]
    ELSE [otp |-> [Digit |-> digit, TimeStep |-> 30 * Second, BaseTime |-> Epoch,
                   Hash |-> "sha1"],
          err |-> "nil"]

\* func New(digit int) (otp OneTimePassword, err error)
New(digit) ==
    IF digit < 6
    THEN [otp |-> ZeroOTP, err |-> "minimum of 6 digits is required for a valid HTOP code"]
    ELSE IF digit > 9
    THEN [otp |-> ZeroOTP, err |-> "HTOP code cannot be longer than 9 digits"]
    ELSE [otp |-> [Digit |-> digit, TimeStep |-> 30 * Second, BaseTime |-> Epoch,
                   Hash |-> "sha1"],
          err |-> "nil"]

\* configurations written as struct literals, OneTimePassword{Digit: .., ..}
\* (example.go, Example_custom): no field is validated
LitDigits == {5, 9}
LitSteps == {0, Second \div 2, Second, Second + Second \div 10, 2 * Second}
LitBases == {Epoch, [sec |-> 0, nsec |-> 400000000]}
Literals ==
    [Digit : LitDigits, TimeStep : LitSteps, BaseTime : LitBases, Hash : Hashes]

---------------------------------------------------------------------------
(* HMAC digest and dynamic truncation *)

\* HMAC-SHA-1(key, 8 big-endian bytes of the counter) as <<key, counter, digest>>
HmacSHA1 ==
    { <<<<>>, <<0, 0, 0, 0, 0, 0, 0, 0>>,
         <<218, 182, 154, 217, 142, 40, 118, 79, 151, 126, 226, 72, 126, 79, 63, 104, 115, 178, 162, 151>>>>,
      <<<<>>, <<0, 0, 0, 0, 0, 0, 0, 1>>,
         <<238, 176, 11, 11, 204, 134, 70, 121, 255, 45, 141, 211, 11, 236, 73, 92, 181, 242, 238, 158>>>>,
      <<<<>>, <<0, 0, 0, 0, 0, 0, 0, 2>>,
         <<177, 111, 139, 209, 46, 204, 48, 149, 241, 100, 19, 190, 113, 82, 213, 229, 8, 196, 23, 206>>>>,
      <<<<>>, <<0, 0, 0, 0, 0, 0, 0, 3>>,
         <<224, 43, 194, 154, 77, 245, 0, 208, 21, 94, 73, 177, 175, 73, 191, 103, 22, 61, 35, 169>>>>,
      <<<<>>, <<0, 0, 0, 0, 0, 0, 0, 4>>,
         <<153, 97, 98, 118, 164, 49, 148, 153, 93, 15, 2, 90, 240, 179, 254, 143, 218, 237, 146, 141>>>>,
      <<<<>>, <<0, 0, 0, 0, 0, 0, 0, 6>>,
         <<170, 38, 132, 88, 24, 53, 231, 140, 177, 147, 117, 128, 175, 229, 141, 24, 22, 213, 86, 7>>>>,
      <<<<>>, <<0, 0, 0, 0, 0, 0, 0, 16>>,
         <<203, 123, 65, 57, 22, 183, 217, 20, 153, 241, 1, 135, 153, 22, 181, 184, 209, 255, 78, 174>>>>,
      <<<<>>, <<0, 0, 0, 0, 0, 0, 0, 29>>,
         <<131, 118, 177, 135, 92, 105, 211, 52, 191, 152, 146, 185, 67, 96, 75, 93, 157, 154, 56, 247>>>>,
      <<<<>>, <<0, 0, 0, 0, 0, 0, 0, 33>>,
         <<88, 219, 65, 216, 132, 102, 184, 61, 65, 16, 158, 101, 205, 233, 120, 188, 26, 72, 0, 85>>>>,
      <<<<>>, <<0, 0, 0, 0, 0, 0, 0, 66>>,
         <<132, 85, 118, 225, 242, 177, 154, 109, 22, 159, 34, 154, 237, 208, 181, 97, 239, 80, 130, 83>>>>,
      <<<<>>, <<0, 0, 0, 0, 0, 8, 136, 136>>,
         <<18, 107, 10, 179, 44, 112, 136, 59, 81, 161, 247, 112, 1, 176, 167, 21, 251, 83, 222, 63>>>>,
      <<<<>>, <<0, 0, 0, 0, 0, 128, 0, 6>>,
         <<253, 156, 204, 216, 254, 245, 185, 196, 227, 88, 203, 137, 23, 141, 235, 158, 104, 80, 66, 59>>>>,
      <<<<>>, <<0, 0, 0, 0, 0, 232, 186, 58>>,
         <<180, 233, 154, 94, 84, 164, 192, 198, 200, 129, 17, 146, 78, 179, 112, 243, 22, 45, 167, 215>>>>,
      <<<<>>, <<0, 0, 0, 0, 1, 0, 0, 13>>,
         <<146, 141, 248, 204, 94, 128, 173, 136, 153, 220, 225, 187, 202, 22, 46, 239, 138, 26, 162, 52>>>>,
      <<<<>>, <<0, 0, 0, 0, 2, 0, 0, 26>>,
         <<211, 230, 154, 164, 199, 10, 105, 102, 20, 64, 75, 159, 45, 217, 85, 36, 23, 41, 221, 49>>>>,
      <<<<>>, <<128, 0, 0, 0, 0, 0, 0, 0>>,
         <<33, 15, 7, 231, 105, 155, 19, 109, 209, 33, 223, 86, 32, 21, 253, 6, 235, 238, 196, 219>>>>,
      <<<<>>, <<255, 255, 255, 255, 255, 255, 255, 255>>,
         <<180, 33, 102, 83, 107, 175, 224, 223, 131, 107, 96, 153, 226, 80, 190, 100, 108, 47, 36, 115>>>>,
      <<<<49, 50, 51, 52, 53, 54, 55, 56, 57, 48, 49, 50, 51, 52, 53, 54, 55, 56, 57, 48>>, <<0, 0, 0, 0, 0, 0, 0, 0>>,
         <<204, 147, 207, 24, 80, 141, 148, 147, 76, 100, 182, 93, 139, 167, 102, 127, 183, 205, 228, 176>>>>,
      <<<<49, 50, 51, 52, 53, 54, 55, 56, 57, 48, 49, 50, 51, 52, 53, 54, 55, 56, 57, 48>>, <<0, 0, 0, 0, 0, 0, 0, 1>>,
         <<117, 164, 138, 25, 212, 203, 225, 0, 100, 78, 138, 193, 57, 126, 234, 116, 122, 45, 51, 171>>>>,
      <<<<49, 50, 51, 52, 53, 54, 55, 56, 57, 48, 49, 50, 51, 52, 53, 54, 55, 56, 57, 48>>, <<0, 0, 0, 0, 0, 0, 0, 2>>,
         <<11, 172, 183, 250, 8, 47, 239, 48, 120, 34, 17, 147, 139, 193, 197, 231, 4, 22, 255, 68>>>>,
      <<<<49, 50, 51, 52, 53, 54, 55, 56, 57, 48, 49, 50, 51, 52, 53, 54, 55, 56, 57, 48>>, <<0, 0, 0, 0, 0, 0, 0, 3>>,
         <<102, 194, 130, 39, 208, 58, 45, 85, 41, 38, 47, 240, 22, 161, 230, 239, 118, 85, 126, 206>>>>,
      <<<<49, 50, 51, 52, 53, 54, 55, 56, 57, 48, 49, 50, 51, 52, 53, 54, 55, 56, 57, 48>>, <<0, 0, 0, 0, 0, 0, 0, 4>>,
         <<169, 4, 201, 0, 166, 75, 53, 144, 152, 116, 179, 62, 97, 197, 147, 138, 142, 21, 237, 28>>>>,
      <<<<49, 50, 51, 52, 53, 54, 55, 56, 57, 48, 49, 50, 51, 52, 53, 54, 55, 56, 57, 48>>, <<0, 0, 0, 0, 0, 0, 0, 5>>,
         <<163, 126, 120, 61, 123, 114, 51, 192, 131, 212, 246, 41, 38, 199, 162, 95, 35, 141, 3, 22>>>>,
      <<<<49, 50, 51, 52, 53, 54, 55, 56, 57, 48, 49, 50, 51, 52, 53, 54, 55, 56, 57, 48>>, <<0, 0, 0, 0, 0, 0, 0, 6>>,
         <<188, 156, 210, 133, 97, 4, 44, 131, 242, 25, 50, 77, 60, 96, 114, 86, 192, 50, 114, 174>>>>,
      <<<<49, 50, 51, 52, 53, 54, 55, 56, 57, 48, 49, 50, 51, 52, 53, 54, 55, 56, 57, 48>>, <<0, 0, 0, 0, 0, 0, 0, 7>>,
         <<164, 251, 150, 12, 11, 192, 110, 30, 171, 184, 4, 229, 179, 151, 205, 196, 180, 85, 150, 250>>>>,
      <<<<49, 50, 51, 52, 53, 54, 55, 56, 57, 48, 49, 50, 51, 52, 53, 54, 55, 56, 57, 48>>, <<0, 0, 0, 0, 0, 0, 0, 8>>,
         <<27, 60, 137, 246, 94, 108, 158, 136, 48, 18, 5, 40, 35, 68, 63, 4, 139, 67, 50, 219>>>>,
      <<<<49, 50, 51, 52, 53, 54, 55, 56, 57, 48, 49, 50, 51, 52, 53, 54, 55, 56, 57, 48>>, <<0, 0, 0, 0, 0, 0, 0, 9>>,
         <<22, 55, 64, 152, 9, 166, 121, 220, 105, 130, 7, 49, 12, 140, 127, 192, 114, 144, 217, 229>>>>,
      <<<<49, 50, 51, 52, 53, 54, 55, 56, 57, 48, 49, 50, 51, 52, 53, 54, 55, 56, 57, 48>>, <<0, 0, 0, 0, 0, 0, 0, 10>>,
         <<155, 157, 213, 239, 154, 154, 210, 93, 215, 59, 249, 172, 206, 166, 111, 137, 161, 37, 232, 115>>>>,
      <<<<49, 50, 51, 52, 53, 54, 55, 56, 57, 48, 49, 50, 51, 52, 53, 54, 55, 56, 57, 48>>, <<0, 0, 0, 0, 0, 0, 0, 11>>,
         <<202, 30, 4, 2, 193, 158, 219, 104, 37, 51, 158, 160, 20, 63, 11, 238, 84, 252, 13, 192>>>>,
      <<<<49, 50, 51, 52, 53, 54, 55, 56, 57, 48, 49, 50, 51, 52, 53, 54, 55, 56, 57, 48>>, <<0, 0, 0, 0, 0, 0, 0, 12>>,
         <<26, 218, 244, 176, 191, 64, 70, 208, 86, 216, 240, 14, 74, 106, 150, 163, 107, 201, 152, 7>>>>,
      <<<<49, 50, 51, 52, 53, 54, 55, 56, 57, 48, 49, 50, 51, 52, 53, 54, 55, 56, 57, 48>>, <<0, 0, 0, 0, 0, 0, 0, 13>>,
         <<63, 186, 127, 138, 36, 141, 135, 248, 166, 191, 7, 154, 68, 49, 53, 228, 144, 162, 187, 198>>>>,
      <<<<49, 50, 51, 52, 53, 54, 55, 56, 57, 48, 49, 50, 51, 52, 53, 54, 55, 56, 57, 48>>, <<0, 0, 0, 0, 0, 0, 0, 14>>,
         <<5, 109, 16, 220, 44, 5, 32, 0, 204, 79, 149, 253, 207, 217, 34, 4, 51, 114, 190, 153>>>>,
      <<<<49, 50, 51, 52, 53, 54, 55, 56, 57, 48, 49, 50, 51, 52, 53, 54, 55, 56, 57, 48>>, <<0, 0, 0, 0, 0, 0, 0, 15>>,
         <<116, 158, 63, 136, 45, 78, 218, 205, 203, 233, 159, 184, 173, 41, 132, 146, 141, 136, 251, 166>>>>,
      <<<<49, 50, 51, 52, 53, 54, 55, 56, 57, 48, 49, 50, 51, 52, 53, 54, 55, 56, 57, 48>>, <<0, 0, 0, 0, 0, 0, 0, 16>>,
         <<42, 221, 131, 116, 38, 38, 71, 219, 194, 108, 220, 208, 96, 176, 154, 85, 189, 249, 28, 188>>>>,
      <<<<49, 50, 51, 52, 53, 54, 55, 56, 57, 48, 49, 50, 51, 52, 53, 54, 55, 56, 57, 48>>, <<0, 0, 0, 0, 0, 0, 0, 17>>,
         <<51, 35, 26, 127, 40, 233, 200, 195, 117, 93, 149, 190, 53, 80, 47, 229, 64, 86, 92, 92>>>>,
      <<<<49, 50, 51, 52, 53, 54, 55, 56, 57, 48, 49, 50, 51, 52, 53, 54, 55, 56, 57, 48>>, <<0, 0, 0, 0, 0, 0, 0, 18>>,
         <<221, 77, 145, 96, 150, 210, 97, 251, 126, 188, 203, 79, 92, 25, 188, 187, 75, 98, 174, 151>>>>,
      <<<<49, 50, 51, 52, 53, 54, 55, 56, 57, 48, 49, 50, 51, 52, 53, 54, 55, 56, 57, 48>>, <<0, 0, 0, 0, 0, 0, 0, 19>>,
         <<200, 61, 170, 122, 248, 192, 13, 53, 4, 97, 236, 234, 242, 75, 156, 9, 18, 190, 149, 70>>>>,
      <<<<49, 50, 51, 52, 53, 54, 55, 56, 57, 48, 49, 50, 51, 52, 53, 54, 55, 56, 57, 48>>, <<0, 0, 0, 0, 0, 0, 0, 20>>,
         <<136, 201, 237, 232, 89, 153, 225, 184, 15, 153, 111, 14, 18, 20, 207, 78, 204, 84, 23, 81>>>>,
      <<<<49, 50, 51, 52, 53, 54, 55, 56, 57, 48, 49, 50, 51, 52, 53, 54, 55, 56, 57, 48>>, <<0, 0, 0, 0, 0, 0, 0, 21>>,
         <<103, 26, 141, 3, 17, 89, 71, 76, 135, 219, 135, 247, 125, 122, 172, 211, 79, 92, 186, 44>>>>,
      <<<<49, 50, 51, 52, 53, 54, 55, 56, 57, 48, 49, 50, 51, 52, 53, 54, 55, 56, 57, 48>>, <<0, 0, 0, 0, 0, 0, 0, 22>>,
         <<5, 126, 214, 123, 231, 105, 141, 144, 41, 250, 103, 247, 41, 34, 32, 129, 198, 53, 42, 43>>>>,
      <<<<49, 50, 51, 52, 53, 54, 55, 56, 57, 48, 49, 50, 51, 52, 53, 54, 55, 56, 57, 48>>, <<0, 0, 0, 0, 0, 0, 0, 23>>,
         <<223, 149, 202, 139, 166, 98, 174, 16, 33, 130, 165, 132, 244, 76, 101, 130, 41, 121, 165, 133>>>>,
      <<<<49, 50, 51, 52, 53, 54, 55, 56, 57, 48, 49, 50, 51, 52, 53, 54, 55, 56, 57, 48>>, <<0, 0, 0, 0, 0, 0, 0, 24>>,
         <<74, 118, 35, 34, 180, 206, 82, 78, 246, 207, 212, 246, 204, 122, 8, 234, 66, 102, 241, 135>>>>,
      <<<<49, 50, 51, 52, 53, 54, 55, 56, 57, 48, 49, 50, 51, 52, 53, 54, 55, 56, 57, 48>>, <<0, 0, 0, 0, 0, 0, 0, 25>>,
         <<13, 61, 193, 74, 109, 11, 162, 189, 3, 109, 53, 50, 103, 237, 35, 151, 199, 183, 55, 82>>>>,
      <<<<49, 50, 51, 52, 53, 54, 55, 56, 57, 48, 49, 50, 51, 52, 53, 54, 55, 56, 57, 48>>, <<0, 0, 0, 0, 0, 0, 0, 26>>,
         <<121, 141, 99, 246, 219, 78, 239, 193, 19, 81, 205, 186, 242, 206, 236, 235, 53, 190, 1, 50>>>>,
      <<<<49, 50, 51, 52, 53, 54, 55, 56, 57, 48, 49, 50, 51, 52, 53, 54, 55, 56, 57, 48>>, <<0, 0, 0, 0, 0, 0, 0, 27>>,
         <<16, 152, 5, 220, 210, 50, 249, 120, 123, 138, 3, 230, 94, 233, 112, 246, 43, 51, 230, 166>>>>,
      <<<<49, 50, 51, 52, 53, 54, 55, 56, 57, 48, 49, 50, 51, 52, 53, 54, 55, 56, 57, 48>>, <<0, 0, 0, 0, 0, 0, 0, 28>>,
         <<106, 192, 113, 89, 1, 168, 70, 113, 162, 129, 112, 156, 188, 148, 232, 221, 179, 251, 17, 232>>>>,
      <<<<49, 50, 51, 52, 53, 54, 55, 56, 57, 48, 49, 50, 51, 52, 53, 54, 55, 56, 57, 48>>, <<0, 0, 0, 0, 0, 0, 0, 29>>,
         <<59, 250, 60, 157, 20, 19, 119, 139, 32, 37, 81, 111, 54, 166, 99, 77, 194, 23, 74, 200>>>>,
      <<<<49, 50, 51, 52, 53, 54, 55, 56, 57, 48, 49, 50, 51, 52, 53, 54, 55, 56, 57, 48>>, <<0, 0, 0, 0, 0, 0, 0, 30>>,
         <<84, 60, 97, 248, 249, 174, 179, 95, 109, 188, 58, 104, 71, 195, 254, 40, 140, 192, 238, 76>>>>,
      <<<<49, 50, 51, 52, 53, 54, 55, 56, 57, 48, 49, 50, 51, 52, 53, 54, 55, 56, 57, 48>>, <<0, 0, 0, 0, 0, 0, 0, 31>>,
         <<77, 127, 196, 67, 22, 11, 162, 17, 90, 108, 207, 71, 140, 177, 67, 221, 142, 180, 26, 201>>>>,
      <<<<49, 50, 51, 52, 53, 54, 55, 56, 57, 48, 49, 50, 51, 52, 53, 54, 55, 56, 57, 48>>, <<0, 0, 0, 0, 0, 0, 0, 32>>,
         <<193, 156, 64, 131, 129, 114, 175, 248, 229, 124, 68, 83, 209, 178, 53, 140, 202, 74, 77, 61>>>>,
      <<<<49, 50, 51, 52, 53, 54, 55, 56, 57, 48, 49, 50, 51, 52, 53, 54, 55, 56, 57, 48>>, <<0, 0, 0, 0, 0, 0, 0, 33>>,
         <<251, 197, 104, 97, 117, 86, 185, 121, 34, 45, 59, 224, 116, 49, 255, 180, 2, 214, 248, 61>>>>,
      <<<<49, 50, 51, 52, 53, 54, 55, 56, 57, 48, 49, 50, 51, 52, 53, 54, 55, 56, 57, 48>>, <<0, 0, 0, 0, 0, 0, 0, 34>>,
         <<187, 63, 175, 215, 172, 184, 221, 67, 84, 40, 147, 44, 208, 243, 208, 25, 218, 125, 191, 159>>>>,
      <<<<49, 50, 51, 52, 53, 54, 55, 56, 57, 48, 49, 50, 51, 52, 53, 54, 55, 56, 57, 48>>, <<0, 0, 0, 0, 0, 0, 0, 35>>,
         <<50, 0, 243, 13, 14, 10, 107, 206, 187, 246, 232, 219, 161, 3, 43, 189, 161, 36, 41, 56>>>>,
      <<<<49, 50, 51, 52, 53, 54, 55, 56, 57, 48, 49, 50, 51, 52, 53, 54, 55, 56, 57, 48>>, <<0, 0, 0, 0, 0, 0, 0, 36>>,
         <<235, 95, 158, 162, 13, 120, 4, 96, 79, 215, 217, 28, 85, 64, 27, 69, 97, 73, 200, 95>>>>,
      <<<<49, 50, 51, 52, 53, 54, 55, 56, 57, 48, 49, 50, 51, 52, 53, 54, 55, 56, 57, 48>>, <<0, 0, 0, 0, 0, 0, 0, 37>>,
         <<208, 239, 78, 184, 244, 21, 64, 17, 39, 94, 54, 135, 79, 43, 141, 115, 222, 29, 145, 229>>>>,
      <<<<49, 50, 51, 52, 53, 54, 55, 56, 57, 48, 49, 50, 51, 52, 53, 54, 55, 56, 57, 48>>, <<0, 0, 0, 0, 0, 0, 0, 38>>,
         <<115, 115, 202, 166, 182, 235, 32, 219, 48, 3, 221, 243, 59, 166, 103, 38, 196, 45, 184, 147>>>>,
      <<<<49, 50, 51, 52, 53, 54, 55, 56, 57, 48, 49, 50, 51, 52, 53, 54, 55, 56, 57, 48>>, <<0, 0, 0, 0, 0, 0, 0, 39>>,
         <<6, 165, 200, 155, 162, 225, 235, 137, 208, 132, 205, 193, 98, 113, 182, 88, 35, 255, 56, 92>>>>,
      <<<<49, 50, 51, 52, 53, 54, 55, 56, 57, 48, 49, 50, 51, 52, 53, 54, 55, 56, 57, 48>>, <<0, 0, 0, 0, 0, 0, 0, 40>>,
         <<95, 148, 255, 48, 88, 187, 117, 85, 27, 197, 148, 233, 116, 20, 182, 20, 172, 208, 183, 145>>>>,
      <<<<49, 50, 51, 52, 53, 54, 55, 56, 57, 48, 49, 50, 51, 52, 53, 54, 55, 56, 57, 48>>, <<0, 0, 0, 0, 0, 0, 0, 41>>,
         <<156, 227, 75, 148, 77, 248, 121, 154, 4, 7, 171, 30, 99, 115, 187, 58, 228, 69, 18, 23>>>>,
      <<<<49, 50, 51, 52, 53, 54, 55, 56, 57, 48, 49, 50, 51, 52, 53, 54, 55, 56, 57, 48>>, <<0, 0, 0, 0, 0, 0, 0, 42>>,
         <<66, 175, 108, 117, 133, 233, 165, 56, 22, 105, 168, 118, 111, 221, 88, 32, 81, 146, 253, 133>>>>,
      <<<<49, 50, 51, 52, 53, 54, 55, 56, 57, 48, 49, 50, 51, 52, 53, 54, 55, 56, 57, 48>>, <<0, 0, 0, 0, 0, 0, 0, 43>>,
         <<204, 49, 91, 218, 175, 42, 39, 77, 76, 125, 151, 89, 185, 58, 187, 222, 122, 243, 129, 0>>>>,
      <<<<49, 50, 51, 52, 53, 54, 55, 56, 57, 48, 49, 50, 51, 52, 53, 54, 55, 56, 57, 48>>, <<0, 0, 0, 0, 0, 0, 0, 44>>,
         <<108, 87, 179, 34, 47, 151, 56, 190, 160, 244, 171, 76, 187, 170, 12, 216, 53, 81, 153, 76>>>>,
      <<<<49, 50, 51, 52, 53, 54, 55, 56, 57, 48, 49, 50, 51, 52, 53, 54, 55, 56, 57, 48>>, <<0, 0, 0, 0, 0, 0, 0, 45>>,
         <<108, 192, 113, 134, 223, 135, 134, 254, 62, 23, 137, 71, 200, 112, 75, 172, 107, 122, 70, 21>>>>,
      <<<<49, 50, 51, 52, 53, 54, 55, 56, 57, 48, 49, 50, 51, 52, 53, 54, 55, 56, 57, 48>>, <<0, 0, 0, 0, 0, 0, 0, 46>>,
         <<135, 245, 175, 51, 101, 238, 218, 179, 234, 45, 169, 229, 55, 113, 115, 252, 4, 246, 3, 131>>>>,
      <<<<49, 50, 51, 52, 53, 54, 55, 56, 57, 48, 49, 50, 51, 52, 53, 54, 55, 56, 57, 48>>, <<0, 0, 0, 0, 0, 0, 0, 47>>,
         <<109, 72, 129, 120, 97, 231, 3, 164, 1, 189, 81, 200, 134, 250, 198, 254, 182, 17, 207, 92>>>>,
      <<<<49, 50, 51, 52, 53, 54, 55, 56, 57, 48, 49, 50, 51, 52, 53, 54, 55, 56, 57, 48>>, <<0, 0, 0, 0, 0, 0, 0, 48>>,
         <<140, 78, 69, 205, 50, 48, 179, 166, 129, 199, 33, 1, 152, 166, 91, 124, 71, 133, 113, 119>>>>,
      <<<<49, 50, 51, 52, 53, 54, 55, 56, 57, 48, 49, 50, 51, 52, 53, 54, 55, 56, 57, 48>>, <<0, 0, 0, 0, 0, 0, 0, 49>>,
         <<206, 69, 184, 94, 125, 196, 60, 209, 84, 124, 206, 23, 217, 199, 110, 78, 219, 149, 37, 129>>>>,
      <<<<49, 50, 51, 52, 53, 54, 55, 56, 57, 48, 49, 50, 51, 52, 53, 54, 55, 56, 57, 48>>, <<0, 0, 0, 0, 0, 0, 0, 50>>,
         <<117, 217, 221, 39, 69, 220, 77, 104, 135, 246, 41, 72, 62, 17, 128, 206, 108, 91, 64, 238>>>>,
      <<<<49, 50, 51, 52, 53, 54, 55, 56, 57, 48, 49, 50, 51, 52, 53, 54, 55, 56, 57, 48>>, <<0, 0, 0, 0, 0, 0, 0, 51>>,
         <<151, 231, 127, 191, 168, 24, 38, 13, 214, 227, 186, 190, 137, 157, 26, 114, 161, 248, 209, 131>>>>,
      <<<<49, 50, 51, 52, 53, 54, 55, 56, 57, 48, 49, 50, 51, 52, 53, 54, 55, 56, 57, 48>>, <<0, 0, 0, 0, 0, 0, 0, 52>>,
         <<145, 96, 183, 225, 54, 106, 107, 191, 173, 217, 40, 3, 59, 198, 128, 162, 126, 54, 224, 107>>>>,
      <<<<49, 50, 51, 52, 53, 54, 55, 56, 57, 48, 49, 50, 51, 52, 53, 54, 55, 56, 57, 48>>, <<0, 0, 0, 0, 0, 0, 0, 53>>,
         <<129, 159, 34, 126, 230, 46, 133, 135, 166, 99, 84, 63, 110, 130, 98, 5, 229, 61, 167, 97>>>>,
      <<<<49, 50, 51, 52, 53, 54, 55, 56, 57, 48, 49, 50, 51, 52, 53, 54, 55, 56, 57, 48>>, <<0, 0, 0, 0, 0, 0, 0, 54>>,
         <<56, 131, 201, 161, 130, 195, 254, 180, 127, 157, 130, 230, 208, 10, 213, 38, 127, 84, 72, 4>>>>,
      <<<<49, 50, 51, 52, 53, 54, 55, 56, 57, 48, 49, 50, 51, 52, 53, 54, 55, 56, 57, 48>>, <<0, 0, 0, 0, 0, 0, 0, 55>>,
         <<56, 113, 146, 225, 134, 100, 34, 69, 48, 142, 169, 75, 200, 3, 73, 250, 40, 141, 138, 127>>>>,
      <<<<49, 50, 51, 52, 53, 54, 55, 56, 57, 48, 49, 50, 51, 52, 53, 54, 55, 56, 57, 48>>, <<0, 0, 0, 0, 0, 0, 0, 66>>,
         <<48, 107, 20, 129, 248, 57, 89, 162, 17, 213, 115, 127, 75, 237, 123, 65, 246, 152, 34, 212>>>>,
      <<<<49, 50, 51, 52, 53, 54, 55, 56, 57, 48, 49, 50, 51, 52, 53, 54, 55, 56, 57, 48>>, <<0, 0, 0, 0, 0, 1, 226, 64>>,
         <<243, 22, 73, 204, 202, 163, 1, 74, 13, 31, 151, 165, 223, 12, 223, 92, 47, 216, 137, 90>>>>,
      <<<<49, 50, 51, 52, 53, 54, 55, 56, 57, 48, 49, 50, 51, 52, 53, 54, 55, 56, 57, 48>>, <<0, 0, 0, 0, 0, 8, 136, 136>>,
         <<247, 161, 144, 231, 237, 204, 230, 138, 251, 68, 42, 142, 48, 67, 245, 175, 233, 35, 181, 1>>>>,
      <<<<49, 50, 51, 52, 53, 54, 55, 56, 57, 48, 49, 50, 51, 52, 53, 54, 55, 56, 57, 48>>, <<0, 0, 0, 0, 0, 128, 0, 6>>,
         <<153, 69, 22, 189, 241, 114, 231, 187, 105, 233, 164, 251, 156, 181, 160, 217, 174, 137, 210, 88>>>>,
      <<<<49, 50, 51, 52, 53, 54, 55, 56, 57, 48, 49, 50, 51, 52, 53, 54, 55, 56, 57, 48>>, <<0, 0, 0, 0, 0, 232, 186, 58>>,
         <<90, 182, 7, 201, 111, 154, 244, 28, 189, 53, 152, 208, 77, 122, 20, 192, 22, 179, 91, 172>>>>,
      <<<<49, 50, 51, 52, 53, 54, 55, 56, 57, 48, 49, 50, 51, 52, 53, 54, 55, 56, 57, 48>>, <<0, 0, 0, 0, 1, 0, 0, 13>>,
         <<44, 247, 100, 214, 67, 169, 201, 198, 213, 255, 72, 246, 11, 76, 105, 174, 85, 45, 120, 74>>>>,
      <<<<49, 50, 51, 52, 53, 54, 55, 56, 57, 48, 49, 50, 51, 52, 53, 54, 55, 56, 57, 48>>, <<0, 0, 0, 0, 2, 0, 0, 26>>,
         <<166, 200, 240, 66, 81, 122, 103, 6, 144, 21, 203, 161, 122, 226, 113, 35, 189, 24, 125, 153>>>>,
      <<<<49, 50, 51, 52, 53, 54, 55, 56, 57, 48, 49, 50, 51, 52, 53, 54, 55, 56, 57, 48>>, <<128, 0, 0, 0, 0, 0, 0, 0>>,
         <<48, 193, 18, 192, 231, 196, 81, 94, 157, 206, 213, 23, 227, 36, 229, 107, 133, 62, 162, 32>>>>,
      <<<<49, 50, 51, 52, 53, 54, 55, 56, 57, 48, 49, 50, 51, 52, 53, 54, 55, 56, 57, 48>>, <<255, 255, 255, 255, 255, 255, 255, 255>>,
         <<246, 22, 253, 102, 183, 240, 98, 144, 104, 107, 99, 32, 206, 179, 77, 101, 177, 254, 147, 234>>>>,
      <<<<72>>, <<0, 0, 0, 0, 0, 0, 0, 0>>,
         <<237, 219, 53, 230, 25, 61, 153, 195, 4, 249, 30, 37, 65, 126, 154, 165, 176, 23, 180, 75>>>>,
      <<<<72>>, <<0, 0, 0, 0, 0, 0, 0, 1>>,
         <<241, 144, 195, 164, 67, 152, 39, 224, 206, 237, 240, 175, 132, 66, 73, 97, 3, 114, 111, 14>>>>,
      <<<<72>>, <<0, 0, 0, 0, 0, 0, 0, 2>>,
         <<242, 251, 246, 42, 149, 130, 64, 230, 94, 184, 122, 84, 224, 127, 240, 154, 125, 106, 152, 176>>>>,
      <<<<72>>, <<0, 0, 0, 0, 0, 0, 0, 3>>,
         <<84, 32, 47, 219, 3, 80, 208, 28, 134, 175, 94, 216, 165, 42, 177, 56, 254, 4, 169, 77>>>>,
      <<<<72>>, <<0, 0, 0, 0, 0, 0, 0, 4>>,
         <<246, 210, 104, 84, 99, 51, 233, 255, 82, 27, 247, 137, 226, 53, 162, 84, 77, 70, 110, 103>>>>,
      <<<<72>>, <<0, 0, 0, 0, 0, 0, 0, 6>>,
         <<106, 69, 126, 89, 94, 195, 6, 240, 34, 35, 229, 209, 173, 185, 56, 234, 163, 238, 252, 30>>>>,
      <<<<72>>, <<0, 0, 0, 0, 0, 0, 0, 16>>,
         <<135, 167, 116, 244, 95, 208, 106, 141, 52, 56, 80, 106, 194, 110, 224, 241, 236, 8, 91, 124>>>>,
      <<<<72>>, <<0, 0, 0, 0, 0, 0, 0, 29>>,
         <<174, 139, 84, 201, 237, 10, 81, 217, 1, 108, 225, 25, 111, 166, 94, 170, 140, 193, 160, 241>>>>,
      <<<<72>>, <<0, 0, 0, 0, 0, 0, 0, 33>>,
         <<138, 137, 129, 144, 47, 194, 247, 236, 106, 95, 249, 213, 77, 178, 222, 194, 91, 13, 150, 101>>>>,
      <<<<72>>, <<0, 0, 0, 0, 0, 0, 0, 66>>,
         <<43, 236, 242, 172, 192, 219, 23, 139, 57, 10, 195, 209, 38, 102, 198, 92, 244, 195, 232, 185>>>>,
      <<<<72>>, <<0, 0, 0, 0, 0, 8, 136, 136>>,
         <<244, 143, 216, 4, 101, 244, 0, 69, 199, 243, 18, 161, 32, 250, 149, 31, 120, 22, 189, 203>>>>,
      <<<<72>>, <<0, 0, 0, 0, 0, 128, 0, 6>>,
         <<68, 67, 85, 107, 73, 243, 46, 157, 135, 202, 144, 18, 30, 5, 199, 142, 202, 216, 79, 210>>>>,
      <<<<72>>, <<0, 0, 0, 0, 0, 232, 186, 58>>,
         <<102, 32, 238, 141, 228, 103, 59, 244, 62, 191, 255, 122, 93, 15, 226, 165, 64, 178, 4, 103>>>>,
      <<<<72>>, <<0, 0, 0, 0, 1, 0, 0, 13>>,
         <<66, 97, 172, 40, 238, 197, 48, 49, 124, 147, 66, 157, 67, 124, 213, 53, 25, 155, 240, 178>>>>,
      <<<<72>>, <<0, 0, 0, 0, 2, 0, 0, 26>>,
         <<49, 211, 113, 112, 64, 104, 186, 217, 225, 71, 156, 190, 161, 87, 36, 26, 199, 193, 236, 198>>>>,
      <<<<72>>, <<128, 0, 0, 0, 0, 0, 0, 0>>,
         <<239, 29, 86, 242, 136, 73, 148, 113, 142, 121, 252, 191, 122, 163, 226, 250, 222, 117, 3, 229>>>>,
      <<<<72>>, <<255, 255, 255, 255, 255, 255, 255, 255>>,
         <<65, 248, 67, 16, 151, 24, 4, 69, 204, 110, 61, 197, 45, 1, 25, 92, 219, 236, 84, 86>>>>,
      <<<<72, 101>>, <<0, 0, 0, 0, 0, 0, 0, 0>>,
         <<240, 59, 130, 12, 162, 130, 61, 209, 118, 5, 35, 132, 90, 229, 195, 67, 64, 172, 82, 221>>>>,
      <<<<72, 101>>, <<0, 0, 0, 0, 0, 0, 0, 1>>,
         <<154, 118, 118, 115, 137, 252, 216, 72, 118, 85, 119, 65, 111, 88, 212, 103, 99, 233, 141, 200>>>>,
      <<<<72, 101>>, <<0, 0, 0, 0, 0, 0, 0, 2>>,
         <<230, 77, 52, 101, 75, 239, 78, 4, 217, 237, 40, 107, 189, 91, 144, 130, 211, 109, 70, 246>>>>,
      <<<<72, 101>>, <<0, 0, 0, 0, 0, 0, 0, 3>>,
         <<165, 105, 140, 200, 90, 194, 218, 113, 112, 141, 47, 116, 60, 229, 79, 254, 108, 197, 73, 194>>>>,
      <<<<72, 101>>, <<0, 0, 0, 0, 0, 0, 0, 4>>,
         <<86, 75, 145, 9, 214, 105, 250, 198, 4, 15, 70, 84, 197, 54, 65, 154, 48, 48, 113, 46>>>>,
      <<<<72, 101>>, <<0, 0, 0, 0, 0, 0, 0, 6>>,
         <<86, 80, 148, 119, 133, 41, 124, 190, 204, 30, 160, 254, 184, 209, 125, 48, 40, 179, 78, 249>>>>,
      <<<<72, 101>>, <<0, 0, 0, 0, 0, 0, 0, 16>>,
         <<164, 136, 162, 112, 208, 202, 75, 237, 30, 225, 47, 20, 197, 114, 215, 157, 129, 191, 135, 31>>>>,
      <<<<72, 101>>, <<0, 0, 0, 0, 0, 0, 0, 29>>,
         <<93, 20, 69, 142, 68, 166, 97, 79, 29, 127, 147, 64, 181, 219, 213, 2, 197, 149, 194, 229>>>>,
      <<<<72, 101>>, <<0, 0, 0, 0, 0, 0, 0, 33>>,
         <<16, 171, 93, 28, 167, 110, 103, 50, 91, 116, 26, 176, 202, 129, 145, 98, 76, 174, 36, 55>>>>,
      <<<<72, 101>>, <<0, 0, 0, 0, 0, 0, 0, 66>>,
         <<228, 107, 133, 37, 214, 221, 116, 21, 143, 186, 90, 146, 212, 141, 64, 97, 232, 94, 129, 77>>>>,
      <<<<72, 101>>, <<0, 0, 0, 0, 0, 8, 136, 136>>,
         <<233, 221, 68, 158, 206, 93, 125, 75, 250, 199, 250, 23, 151, 199, 99, 220, 253, 151, 119, 81>>>>,
      <<<<72, 101>>, <<0, 0, 0, 0, 0, 128, 0, 6>>,
         <<204, 33, 46, 246, 213, 66, 237, 60, 116, 46, 194, 92, 61, 42, 230, 86, 68, 170, 139, 7>>>>,
      <<<<72, 101>>, <<0, 0, 0, 0, 0, 232, 186, 58>>,
         <<217, 89, 65, 243, 20, 24, 22, 108, 247, 79, 225, 78, 150, 128, 0, 179, 134, 172, 158, 35>>>>,
      <<<<72, 101>>, <<0, 0, 0, 0, 1, 0, 0, 13>>,
         <<233, 142, 4, 230, 99, 93, 175, 14, 248, 204, 14, 61, 51, 239, 125, 87, 235, 198, 24, 198>>>>,
      <<<<72, 101>>, <<0, 0, 0, 0, 2, 0, 0, 26>>,
         <<64, 37, 199, 243, 32, 98, 106, 249, 10, 229, 183, 195, 39, 249, 244, 78, 62, 117, 105, 209>>>>,
      <<<<72, 101>>, <<128, 0, 0, 0, 0, 0, 0, 0>>,
         <<34, 22, 31, 216, 226, 143, 218, 39, 97, 189, 184, 110, 84, 190, 112, 80, 141, 239, 236, 135>>>>,
      <<<<72, 101>>, <<255, 255, 255, 255, 255, 255, 255, 255>>,
         <<55, 53, 240, 14, 203, 215, 119, 133, 75, 138, 106, 120, 118, 70, 221, 235, 99, 3, 244, 178>>>>,
      <<<<72, 101, 108>>, <<0, 0, 0, 0, 0, 0, 0, 0>>,
         <<26, 168, 25, 224, 26, 125, 198, 157, 52, 179, 5, 118, 235, 13, 167, 245, 58, 126, 227, 57>>>>,
      <<<<72, 101, 108>>, <<0, 0, 0, 0, 0, 0, 0, 1>>,
         <<25, 49, 191, 80, 118, 56, 104, 109, 236, 198, 156, 228, 91, 65, 206, 97, 251, 254, 187, 24>>>>,
      <<<<72, 101, 108>>, <<0, 0, 0, 0, 0, 0, 0, 2>>,
         <<53, 132, 6, 222, 13, 40, 244, 95, 106, 206, 254, 249, 209, 143, 215, 234, 124, 169, 22, 128>>>>,
      <<<<72, 101, 108>>, <<0, 0, 0, 0, 0, 0, 0, 3>>,
         <<202, 45, 30, 3, 79, 57, 173, 106, 160, 40, 93, 51, 193, 107, 234, 92, 166, 29, 196, 67>>>>,
      <<<<72, 101, 108>>, <<0, 0, 0, 0, 0, 0, 0, 4>>,
         <<132, 147, 23, 162, 190, 30, 13, 138, 52, 82, 93, 96, 236, 150, 184, 46, 90, 226, 95, 73>>>>,
      <<<<72, 101, 108>>, <<0, 0, 0, 0, 0, 0, 0, 6>>,
         <<189, 160, 159, 208, 16, 121, 248, 202, 209, 138, 60, 145, 167, 43, 170, 23, 35, 126, 29, 197>>>>,
      <<<<72, 101, 108>>, <<0, 0, 0, 0, 0, 0, 0, 16>>,
         <<113, 153, 226, 135, 105, 198, 38, 34, 239, 57, 231, 167, 64, 84, 27, 235, 183, 174, 16, 70>>>>,
      <<<<72, 101, 108>>, <<0, 0, 0, 0, 0, 0, 0, 29>>,
         <<182, 136, 109, 80, 17, 188, 23, 32, 17, 71, 127, 219, 98, 182, 225, 124, 244, 68, 157, 26>>>>,
      <<<<72, 101, 108>>, <<0, 0, 0, 0, 0, 0, 0, 33>>,
         <<198, 245, 223, 18, 102, 47, 221, 49, 177, 61, 227, 153, 249, 142, 225, 131, 174, 43, 232, 33>>>>,
      <<<<72, 101, 108>>, <<0, 0, 0, 0, 0, 0, 0, 66>>,
         <<107, 149, 178, 78, 55, 50, 238, 206, 216, 30, 161, 74, 94, 0, 120, 66, 140, 226, 217, 168>>>>,
      <<<<72, 101, 108>>, <<0, 0, 0, 0, 0, 8, 136, 136>>,
         <<42, 121, 24, 66, 60, 66, 136, 81, 251, 218, 46, 171, 121, 159, 222, 193, 155, 206, 138, 113>>>>,
      <<<<72, 101, 108>>, <<0, 0, 0, 0, 0, 128, 0, 6>>,
         <<14, 135, 70, 252, 7, 12, 191, 192, 73, 99, 213, 71, 245, 107, 252, 122, 194, 95, 237, 139>>>>,
      <<<<72, 101, 108>>, <<0, 0, 0, 0, 0, 232, 186, 58>>,
         <<60, 29, 154, 8, 122, 135, 33, 14, 176, 190, 20, 70, 24, 237, 188, 185, 186, 90, 62, 85>>>>,
      <<<<72, 101, 108>>, <<0, 0, 0, 0, 1, 0, 0, 13>>,
         <<196, 174, 79, 165, 173, 99, 208, 24, 229, 205, 240, 62, 134, 255, 217, 171, 203, 47, 181, 235>>>>,
      <<<<72, 101, 108>>, <<0, 0, 0, 0, 2, 0, 0, 26>>,
         <<81, 83, 227, 196, 93, 176, 109, 172, 207, 172, 160, 185, 27, 89, 56, 134, 9, 120, 209, 93>>>>,
      <<<<72, 101, 108>>, <<128, 0, 0, 0, 0, 0, 0, 0>>,
         <<85, 221, 136, 255, 113, 53, 252, 199, 183, 150, 37, 108, 203, 107, 161, 105, 94, 252, 65, 88>>>>,
      <<<<72, 101, 108>>, <<255, 255, 255, 255, 255, 255, 255, 255>>,
         <<115, 206, 96, 74, 89, 110, 14, 125, 170, 81, 166, 150, 89, 55, 202, 253, 191, 191, 27, 122>>>>,
      <<<<72, 101, 108, 108>>, <<0, 0, 0, 0, 0, 0, 0, 0>>,
         <<205, 157, 162, 198, 157, 19, 216, 57, 139, 78, 119, 65, 251, 22, 37, 214, 198, 241, 213, 74>>>>,
      <<<<72, 101, 108, 108>>, <<0, 0, 0, 0, 0, 0, 0, 1>>,
         <<169, 47, 181, 214, 201, 188, 160, 97, 207, 69, 110, 53, 214, 13, 57, 189, 92, 61, 227, 147>>>>,
      <<<<72, 101, 108, 108>>, <<0, 0, 0, 0, 0, 0, 0, 2>>,
         <<34, 220, 186, 145, 174, 168, 114, 183, 140, 239, 101, 99, 221, 214, 75, 122, 143, 169, 190, 140>>>>,
      <<<<72, 101, 108, 108>>, <<0, 0, 0, 0, 0, 0, 0, 3>>,
         <<188, 233, 85, 20, 89, 205, 157, 115, 140, 25, 35, 51, 91, 162, 28, 59, 113, 197, 226, 255>>>>,
      <<<<72, 101, 108, 108>>, <<0, 0, 0, 0, 0, 0, 0, 4>>,
         <<27, 229, 19, 228, 97, 235, 62, 200, 148, 122, 6, 14, 102, 157, 56, 234, 222, 95, 185, 121>>>>,
      <<<<72, 101, 108, 108>>, <<0, 0, 0, 0, 0, 0, 0, 6>>,
         <<241, 42, 237, 95, 95, 85, 193, 87, 229, 83, 249, 218, 14, 31, 53, 184, 225, 61, 66, 58>>>>,
      <<<<72, 101, 108, 108>>, <<0, 0, 0, 0, 0, 0, 0, 16>>,
         <<211, 124, 4, 227, 215, 0, 158, 182, 148, 131, 104, 37, 48, 64, 24, 5, 111, 66, 103, 210>>>>,
      <<<<72, 101, 108, 108>>, <<0, 0, 0, 0, 0, 0, 0, 29>>,
         <<244, 186, 210, 87, 214, 235, 119, 45, 64, 29, 153, 222, 78, 152, 42, 137, 233, 225, 215, 78>>>>,
      <<<<72, 101, 108, 108>>, <<0, 0, 0, 0, 0, 0, 0, 33>>,
         <<187, 203, 181, 160, 74, 17, 33, 221, 241, 21, 68, 21, 35, 8, 132, 29, 75, 96, 66, 138>>>>,
      <<<<72, 101, 108, 108>>, <<0, 0, 0, 0, 0, 0, 0, 66>>,
         <<165, 155, 0, 234, 233, 202, 73, 86, 184, 235, 99, 1, 106, 189, 125, 222, 13, 136, 1, 241>>>>,
      <<<<72, 101, 108, 108>>, <<0, 0, 0, 0, 0, 8, 136, 136>>,
         <<199, 136, 34, 225, 8, 162, 2, 17, 238, 39, 235, 173, 198, 176, 213, 73, 34, 56, 233, 68>>>>,
      <<<<72, 101, 108, 108>>, <<0, 0, 0, 0, 0, 128, 0, 6>>,
         <<49, 203, 136, 103, 88, 184, 112, 77, 63, 137, 180, 41, 246, 182, 131, 65, 87, 190, 2, 149>>>>,
      <<<<72, 101, 108, 108>>, <<0, 0, 0, 0, 0, 232, 186, 58>>,
         <<159, 14, 73, 62, 176, 7, 73, 201, 173, 12, 103, 2, 144, 172, 171, 103, 165, 24, 79, 83>>>>,
      <<<<72, 101, 108, 108>>, <<0, 0, 0, 0, 1, 0, 0, 13>>,
         <<71, 84, 241, 123, 246, 64, 81, 199, 44, 186, 3, 22, 66, 125, 181, 128, 211, 185, 179, 97>>>>,
      <<<<72, 101, 108, 108>>, <<0, 0, 0, 0, 2, 0, 0, 26>>,
         <<0, 11, 163, 46, 29, 206, 240, 28, 123, 67, 59, 179, 59, 10, 108, 8, 184, 39, 168, 94>>>>,
      <<<<72, 101, 108, 108>>, <<128, 0, 0, 0, 0, 0, 0, 0>>,
         <<110, 209, 14, 221, 178, 86, 22, 150, 204, 107, 11, 208, 81, 130, 108, 253, 7, 226, 67, 199>>>>,
      <<<<72, 101, 108, 108>>, <<255, 255, 255, 255, 255, 255, 255, 255>>,
         <<116, 165, 76, 176, 208, 76, 69, 87, 217, 38, 27, 212, 84, 1, 127, 28, 96, 61, 163, 113>>>>,
      <<<<72, 101, 108, 108, 111>>, <<0, 0, 0, 0, 0, 0, 0, 0>>,
         <<79, 3, 224, 150, 35, 247, 98, 83, 147, 16, 217, 188, 231, 38, 149, 107, 181, 161, 111, 193>>>>,
      <<<<72, 101, 108, 108, 111>>, <<0, 0, 0, 0, 0, 0, 0, 1>>,
         <<46, 64, 176, 194, 174, 132, 25, 10, 10, 53, 39, 253, 57, 113, 101, 92, 206, 187, 217, 164>>>>,
      <<<<72, 101, 108, 108, 111>>, <<0, 0, 0, 0, 0, 0, 0, 2>>,
         <<202, 15, 28, 239, 26, 140, 173, 213, 5, 106, 223, 173, 218, 26, 125, 204, 79, 65, 234, 11>>>>,
      <<<<72, 101, 108, 108, 111>>, <<0, 0, 0, 0, 0, 0, 0, 3>>,
         <<160, 95, 189, 177, 69, 150, 89, 131, 136, 227, 56, 106, 128, 80, 36, 91, 247, 35, 238, 252>>>>,
      <<<<72, 101, 108, 108, 111>>, <<0, 0, 0, 0, 0, 0, 0, 4>>,
         <<179, 17, 126, 252, 105, 197, 71, 60, 25, 118, 184, 183, 182, 159, 184, 255, 77, 47, 229, 54>>>>,
      <<<<72, 101, 108, 108, 111>>, <<0, 0, 0, 0, 0, 0, 0, 6>>,
         <<249, 86, 160, 5, 61, 142, 245, 70, 194, 18, 75, 160, 23, 132, 156, 41, 176, 123, 226, 72>>>>,
      <<<<72, 101, 108, 108, 111>>, <<0, 0, 0, 0, 0, 0, 0, 16>>,
         <<174, 150, 225, 42, 17, 95, 170, 226, 145, 210, 101, 189, 161, 175, 95, 12, 57, 22, 98, 31>>>>,
      <<<<72, 101, 108, 108, 111>>, <<0, 0, 0, 0, 0, 0, 0, 29>>,
         <<55, 231, 107, 92, 185, 39, 3, 120, 8, 88, 100, 10, 88, 117, 56, 187, 60, 228, 26, 251>>>>,
      <<<<72, 101, 108, 108, 111>>, <<0, 0, 0, 0, 0, 0, 0, 33>>,
         <<124, 240, 43, 28, 78, 62, 197, 67, 101, 174, 164, 105, 182, 8, 77, 184, 112, 65, 188, 104>>>>,
      <<<<72, 101, 108, 108, 111>>, <<0, 0, 0, 0, 0, 0, 0, 66>>,
         <<55, 204, 250, 64, 235, 131, 142, 83, 94, 67, 90, 216, 56, 193, 154, 155, 149, 228, 227, 177>>>>,
      <<<<72, 101, 108, 108, 111>>, <<0, 0, 0, 0, 0, 8, 136, 136>>,
         <<203, 30, 45, 1, 80, 117, 117, 121, 169, 57, 113, 3, 197, 249, 177, 106, 82, 236, 222, 222>>>>,
      <<<<72, 101, 108, 108, 111>>, <<0, 0, 0, 0, 0, 128, 0, 6>>,
         <<210, 14, 11, 246, 246, 32, 77, 151, 73, 95, 81, 95, 32, 21, 240, 250, 42, 173, 85, 13>>>>,
      <<<<72, 101, 108, 108, 111>>, <<0, 0, 0, 0, 0, 232, 186, 58>>,
         <<202, 47, 232, 184, 203, 53, 28, 94, 107, 109, 245, 170, 208, 83, 31, 135, 92, 63, 195, 132>>>>,
      <<<<72, 101, 108, 108, 111>>, <<0, 0, 0, 0, 1, 0, 0, 13>>,
         <<190, 186, 130, 59, 162, 17, 38, 166, 67, 61, 103, 100, 40, 192, 87, 142, 179, 85, 18, 33>>>>,
      <<<<72, 101, 108, 108, 111>>, <<0, 0, 0, 0, 2, 0, 0, 26>>,
         <<231, 131, 220, 120, 58, 172, 251, 5, 47, 16, 166, 205, 150, 145, 66, 133, 133, 30, 126, 156>>>>,
      <<<<72, 101, 108, 108, 111>>, <<128, 0, 0, 0, 0, 0, 0, 0>>,
         <<195, 206, 96, 94, 221, 226, 184, 247, 177, 65, 72, 26, 117, 167, 70, 46, 137, 168, 79, 26>>>>,
      <<<<72, 101, 108, 108, 111>>, <<255, 255, 255, 255, 255, 255, 255, 255>>,
         <<8, 12, 134, 191, 100, 222, 255, 198, 130, 126, 164, 190, 130, 76, 50, 143, 59, 37, 224, 230>>>>,
      <<<<72, 101, 108, 108, 111, 33>>, <<0, 0, 0, 0, 0, 0, 0, 0>>,
         <<178, 3, 52, 138, 238, 130, 165, 29, 217, 164, 83, 10, 170, 3, 88, 142, 107, 23, 222, 27>>>>,
      <<<<72, 101, 108, 108, 111, 33>>, <<0, 0, 0, 0, 0, 0, 0, 1>>,
         <<119, 109, 103, 36, 62, 53, 42, 3, 188, 189, 182, 51, 95, 134, 90, 252, 224, 171, 205, 229>>>>,
      <<<<72, 101, 108, 108, 111, 33>>, <<0, 0, 0, 0, 0, 0, 0, 2>>,
         <<45, 211, 102, 56, 188, 43, 5, 168, 191, 170, 176, 203, 9, 125, 149, 73, 150, 109, 119, 95>>>>,
      <<<<72, 101, 108, 108, 111, 33>>, <<0, 0, 0, 0, 0, 0, 0, 3>>,
         <<65, 253, 32, 33, 130, 30, 95, 245, 115, 178, 109, 168, 104, 29, 23, 210, 67, 137, 166, 181>>>>,
      <<<<72, 101, 108, 108, 111, 33>>, <<0, 0, 0, 0, 0, 0, 0, 4>>,
         <<118, 127, 150, 61, 173, 6, 45, 42, 5, 94, 80, 240, 198, 87, 85, 246, 7, 219, 26, 123>>>>,
      <<<<72, 101, 108, 108, 111, 33>>, <<0, 0, 0, 0, 0, 0, 0, 6>>,
         <<179, 186, 116, 251, 22, 114, 27, 166, 166, 216, 128, 193, 18, 198, 102, 208, 80, 206, 143, 22>>>>,
      <<<<72, 101, 108, 108, 111, 33>>, <<0, 0, 0, 0, 0, 0, 0, 16>>,
         <<140, 173, 194, 148, 183, 231, 219, 105, 53, 225, 252, 66, 121, 150, 93, 43, 63, 47, 172, 236>>>>,
      <<<<72, 101, 108, 108, 111, 33>>, <<0, 0, 0, 0, 0, 0, 0, 29>>,
         <<50, 138, 72, 241, 182, 63, 91, 144, 220, 30, 208, 14, 115, 32, 200, 120, 84, 20, 29, 243>>>>,
      <<<<72, 101, 108, 108, 111, 33>>, <<0, 0, 0, 0, 0, 0, 0, 33>>,
         <<1, 246, 29, 16, 225, 238, 37, 4, 50, 212, 127, 50, 94, 64, 99, 218, 199, 181, 242, 123>>>>,
      <<<<72, 101, 108, 108, 111, 33>>, <<0, 0, 0, 0, 0, 0, 0, 66>>,
         <<13, 80, 240, 250, 57, 254, 235, 148, 94, 100, 25, 175, 53, 125, 154, 174, 70, 171, 4, 165>>>>,
      <<<<72, 101, 108, 108, 111, 33>>, <<0, 0, 0, 0, 0, 8, 136, 136>>,
         <<118, 121, 100, 168, 172, 110, 79, 168, 99, 115, 73, 122, 139, 129, 149, 4, 248, 107, 92, 75>>>>,
      <<<<72, 101, 108, 108, 111, 33>>, <<0, 0, 0, 0, 0, 128, 0, 6>>,
         <<58, 74, 45, 130, 36, 6, 11, 175, 68, 205, 86, 205, 231, 248, 178, 71, 240, 135, 107, 141>>>>,
      <<<<72, 101, 108, 108, 111, 33>>, <<0, 0, 0, 0, 0, 232, 186, 58>>,
         <<78, 110, 57, 178, 207, 71, 59, 35, 49, 133, 111, 204, 133, 96, 111, 25, 246, 234, 99, 160>>>>,
      <<<<72, 101, 108, 108, 111, 33>>, <<0, 0, 0, 0, 1, 0, 0, 13>>,
         <<201, 166, 63, 139, 5, 75, 54, 32, 125, 106, 60, 110, 24, 112, 241, 144, 166, 202, 63, 55>>>>,
      <<<<72, 101, 108, 108, 111, 33>>, <<0, 0, 0, 0, 2, 0, 0, 26>>,
         <<90, 139, 72, 253, 210, 15, 75, 156, 233, 193, 149, 73, 161, 184, 81, 79, 111, 192, 21, 130>>>>,
      <<<<72, 101, 108, 108, 111, 33>>, <<128, 0, 0, 0, 0, 0, 0, 0>>,
         <<23, 138, 250, 225, 91, 139, 23, 72, 122, 252, 62, 196, 178, 153, 127, 35, 168, 53, 182, 236>>>>,
      <<<<72, 101, 108, 108, 111, 33>>, <<255, 255, 255, 255, 255, 255, 255, 255>>,
         <<113, 169, 249, 42, 54, 200, 179, 178, 178, 212, 162, 11, 5, 220, 29, 136, 70, 171, 207, 36>>>>,
      <<<<83, 79, 77, 69>>, <<0, 0, 0, 0, 0, 0, 0, 0>>,
         <<25, 129, 254, 175, 37, 185, 94, 164, 9, 121, 12, 209, 102, 211, 87, 213, 228, 24, 206, 246>>>>,
      <<<<83, 79, 77, 69>>, <<0, 0, 0, 0, 0, 0, 0, 1>>,
         <<233, 38, 36, 8, 128, 69, 114, 201, 126, 113, 48, 245, 115, 87, 1, 223, 125, 107, 212, 238>>>>,
      <<<<83, 79, 77, 69>>, <<0, 0, 0, 0, 0, 0, 0, 2>>,
         <<194, 131, 251, 122, 253, 194, 249, 87, 45, 145, 78, 82, 215, 202, 33, 199, 241, 102, 154, 240>>>>,
      <<<<83, 79, 77, 69>>, <<0, 0, 0, 0, 0, 0, 0, 3>>,
         <<45, 157, 101, 185, 148, 140, 199, 100, 4, 107, 220, 161, 81, 92, 123, 85, 82, 61, 147, 107>>>>,
      <<<<83, 79, 77, 69>>, <<0, 0, 0, 0, 0, 0, 0, 4>>,
         <<64, 196, 53, 73, 118, 173, 209, 46, 225, 164, 141, 138, 4, 213, 33, 224, 123, 95, 105, 114>>>>,
      <<<<83, 79, 77, 69>>, <<0, 0, 0, 0, 0, 0, 0, 5>>,
         <<161, 48, 13, 194, 251, 105, 109, 222, 33, 186, 106, 88, 98, 37, 179, 30, 47, 40, 141, 91>>>>,
      <<<<83, 79, 77, 69>>, <<0, 0, 0, 0, 0, 0, 0, 6>>,
         <<173, 181, 88, 77, 190, 252, 214, 178, 235, 229, 29, 26, 245, 190, 28, 9, 90, 23, 5, 2>>>>,
      <<<<83, 79, 77, 69>>, <<0, 0, 0, 0, 0, 0, 0, 7>>,
         <<138, 152, 242, 137, 166, 37, 5, 9, 9, 48, 54, 66, 200, 187, 204, 202, 254, 60, 189, 84>>>>,
      <<<<83, 79, 77, 69>>, <<0, 0, 0, 0, 0, 0, 0, 8>>,
         <<62, 46, 140, 169, 166, 202, 85, 176, 210, 119, 155, 18, 79, 165, 228, 115, 54, 30, 146, 176>>>>,
      <<<<83, 79, 77, 69>>, <<0, 0, 0, 0, 0, 0, 0, 9>>,
         <<193, 2, 115, 74, 85, 73, 14, 2, 141, 199, 22, 188, 87, 156, 95, 76, 181, 198, 110, 15>>>>,
      <<<<83, 79, 77, 69>>, <<0, 0, 0, 0, 0, 0, 0, 10>>,
         <<212, 190, 95, 51, 32, 111, 15, 164, 144, 182, 182, 243, 36, 176, 240, 36, 213, 15, 105, 146>>>>,
      <<<<83, 79, 77, 69>>, <<0, 0, 0, 0, 0, 0, 0, 11>>,
         <<123, 68, 12, 61, 21, 66, 81, 171, 191, 62, 232, 69, 14, 217, 148, 170, 158, 47, 106, 78>>>>,
      <<<<83, 79, 77, 69>>, <<0, 0, 0, 0, 0, 0, 0, 12>>,
         <<58, 108, 2, 124, 2, 79, 62, 181, 80, 178, 14, 255, 5, 83, 23, 74, 140, 205, 227, 135>>>>,
      <<<<83, 79, 77, 69>>, <<0, 0, 0, 0, 0, 0, 0, 13>>,
         <<114, 124, 151, 225, 65, 232, 21, 181, 19, 32, 212, 39, 147, 115, 129, 124, 157, 179, 181, 103>>>>,
      <<<<83, 79, 77, 69>>, <<0, 0, 0, 0, 0, 0, 0, 14>>,
         <<173, 219, 243, 58, 151, 60, 122, 200, 114, 99, 67, 17, 28, 206, 162, 8, 39, 59, 228, 171>>>>,
      <<<<83, 79, 77, 69>>, <<0, 0, 0, 0, 0, 0, 0, 15>>,
         <<255, 147, 118, 80, 80, 52, 234, 202, 40, 21, 195, 77, 81, 250, 183, 149, 99, 78, 119, 36>>>>,
      <<<<83, 79, 77, 69>>, <<0, 0, 0, 0, 0, 0, 0, 16>>,
         <<110, 31, 182, 79, 50, 1, 84, 220, 187, 170, 244, 91, 101, 123, 189, 11, 232, 132, 251, 81>>>>,
      <<<<83, 79, 77, 69>>, <<0, 0, 0, 0, 0, 0, 0, 17>>,
         <<220, 152, 81, 28, 78, 80, 13, 6, 107, 143, 153, 231, 96, 157, 255, 213, 26, 135, 160, 62>>>>,
      <<<<83, 79, 77, 69>>, <<0, 0, 0, 0, 0, 0, 0, 18>>,
         <<251, 174, 12, 211, 155, 186, 53, 50, 221, 10, 131, 3, 50, 215, 237, 229, 150, 51, 231, 234>>>>,
      <<<<83, 79, 77, 69>>, <<0, 0, 0, 0, 0, 0, 0, 19>>,
         <<201, 137, 192, 221, 150, 66, 239, 38, 78, 234, 196, 195, 3, 38, 128, 6, 108, 19, 239, 108>>>>,
      <<<<83, 79, 77, 69>>, <<0, 0, 0, 0, 0, 0, 0, 20>>,
         <<77, 32, 228, 18, 248, 154, 104, 145, 74, 229, 174, 150, 116, 164, 188, 224, 95, 160, 5, 90>>>>,
      <<<<83, 79, 77, 69>>, <<0, 0, 0, 0, 0, 0, 0, 21>>,
         <<122, 158, 213, 148, 56, 133, 79, 93, 92, 159, 203, 80, 165, 58, 145, 234, 3, 146, 230, 82>>>>,
      <<<<83, 79, 77, 69>>, <<0, 0, 0, 0, 0, 0, 0, 22>>,
         <<83, 53, 38, 138, 155, 108, 129, 208, 233, 130, 201, 53, 100, 170, 158, 103, 88, 236, 168, 134>>>>,
      <<<<83, 79, 77, 69>>, <<0, 0, 0, 0, 0, 0, 0, 23>>,
         <<93, 18, 249, 225, 196, 32, 156, 53, 125, 177, 138, 44, 20, 141, 76, 38, 232, 54, 242, 38>>>>,
      <<<<83, 79, 77, 69>>, <<0, 0, 0, 0, 0, 0, 0, 24>>,
         <<26, 63, 92, 180, 225, 98, 214, 172, 101, 193, 208, 182, 36, 175, 100, 174, 39, 214, 63, 105>>>>,
      <<<<83, 79, 77, 69>>, <<0, 0, 0, 0, 0, 0, 0, 25>>,
         <<56, 70, 255, 236, 160, 187, 193, 188, 172, 118, 9, 55, 161, 130, 188, 207, 34, 183, 132, 18>>>>,
      <<<<83, 79, 77, 69>>, <<0, 0, 0, 0, 0, 0, 0, 26>>,
         <<217, 21, 48, 35, 39, 19, 6, 35, 200, 71, 119, 224, 50, 153, 75, 96, 1, 196, 11, 220>>>>,
      <<<<83, 79, 77, 69>>, <<0, 0, 0, 0, 0, 0, 0, 27>>,
         <<157, 20, 83, 129, 160, 20, 178, 222, 244, 35, 94, 173, 22, 252, 82, 65, 155, 65, 125, 203>>>>,
      <<<<83, 79, 77, 69>>, <<0, 0, 0, 0, 0, 0, 0, 28>>,
         <<136, 126, 238, 138, 57, 216, 171, 184, 166, 216, 136, 227, 5, 50, 206, 120, 197, 206, 214, 46>>>>,
      <<<<83, 79, 77, 69>>, <<0, 0, 0, 0, 0, 0, 0, 29>>,
         <<182, 192, 150, 54, 71, 230, 29, 106, 112, 127, 72, 173, 209, 23, 98, 137, 75, 138, 1, 214>>>>,
      <<<<83, 79, 77, 69>>, <<0, 0, 0, 0, 0, 0, 0, 30>>,
         <<211, 241, 123, 84, 253, 21, 152, 198, 104, 107, 0, 213, 79, 106, 180, 243, 204, 67, 107, 121>>>>,
      <<<<83, 79, 77, 69>>, <<0, 0, 0, 0, 0, 0, 0, 31>>,
         <<8, 134, 81, 208, 1, 23, 6, 7, 204, 0, 50, 210, 201, 140, 38, 78, 239, 127, 237, 193>>>>,
      <<<<83, 79, 77, 69>>, <<0, 0, 0, 0, 0, 0, 0, 32>>,
         <<143, 159, 193, 105, 236, 168, 205, 202, 117, 171, 30, 103, 12, 207, 96, 223, 251, 192, 25, 226>>>>,
      <<<<83, 79, 77, 69>>, <<0, 0, 0, 0, 0, 0, 0, 33>>,
         <<123, 242, 114, 203, 25, 95, 112, 24, 4, 110, 210, 89, 79, 174, 64, 144, 249, 30, 164, 98>>>>,
      <<<<83, 79, 77, 69>>, <<0, 0, 0, 0, 0, 0, 0, 34>>,
         <<106, 245, 8, 206, 246, 14, 226, 241, 69, 176, 24, 234, 146, 123, 36, 73, 11, 117, 161, 48>>>>,
      <<<<83, 79, 77, 69>>, <<0, 0, 0, 0, 0, 0, 0, 35>>,
         <<114, 142, 239, 65, 255, 96, 4, 112, 219, 118, 76, 128, 213, 183, 242, 102, 3, 113, 110, 175>>>>,
      <<<<83, 79, 77, 69>>, <<0, 0, 0, 0, 0, 0, 0, 36>>,
         <<231, 200, 245, 71, 218, 155, 225, 156, 168, 56, 127, 146, 24, 59, 115, 41, 247, 120, 176, 0>>>>,
      <<<<83, 79, 77, 69>>, <<0, 0, 0, 0, 0, 0, 0, 37>>,
         <<170, 142, 245, 133, 36, 180, 213, 254, 112, 91, 222, 222, 246, 7, 234, 251, 246, 164, 47, 254>>>>,
      <<<<83, 79, 77, 69>>, <<0, 0, 0, 0, 0, 0, 0, 38>>,
         <<131, 219, 76, 211, 190, 68, 70, 200, 85, 82, 159, 70, 119, 73, 254, 105, 18, 228, 113, 111>>>>,
      <<<<83, 79, 77, 69>>, <<0, 0, 0, 0, 0, 0, 0, 39>>,
         <<227, 219, 178, 42, 108, 214, 55, 81, 132, 59, 226, 174, 131, 65, 119, 91, 110, 192, 71, 152>>>>,
      <<<<83, 79, 77, 69>>, <<0, 0, 0, 0, 0, 0, 0, 40>>,
         <<208, 98, 75, 135, 100, 9, 156, 154, 141, 163, 57, 201, 51, 33, 211, 39, 35, 183, 137, 116>>>>,
      <<<<83, 79, 77, 69>>, <<0, 0, 0, 0, 0, 0, 0, 41>>,
         <<149, 157, 113, 187, 196, 102, 2, 135, 33, 166, 6, 1, 172, 2, 14, 219, 90, 135, 109, 248>>>>,
      <<<<83, 79, 77, 69>>, <<0, 0, 0, 0, 0, 0, 0, 42>>,
         <<8, 250, 122, 126, 20, 50, 186, 60, 166, 6, 91, 181, 179, 26, 225, 242, 94, 66, 232, 178>>>>,
      <<<<83, 79, 77, 69>>, <<0, 0, 0, 0, 0, 0, 0, 43>>,
         <<63, 112, 133, 148, 217, 204, 45, 29, 57, 54, 170, 75, 133, 158, 83, 52, 80, 109, 116, 110>>>>,
      <<<<83, 79, 77, 69>>, <<0, 0, 0, 0, 0, 0, 0, 44>>,
         <<234, 182, 37, 121, 148, 59, 41, 237, 26, 53, 191, 212, 194, 129, 112, 64, 247, 42, 149, 205>>>>,
      <<<<83, 79, 77, 69>>, <<0, 0, 0, 0, 0, 0, 0, 45>>,
         <<81, 170, 207, 93, 62, 49, 175, 241, 189, 65, 148, 47, 178, 13, 112, 223, 49, 110, 157, 158>>>>,
      <<<<83, 79, 77, 69>>, <<0, 0, 0, 0, 0, 0, 0, 46>>,
         <<52, 216, 34, 150, 84, 43, 142, 24, 38, 218, 37, 182, 155, 8, 240, 167, 210, 147, 193, 157>>>>,
      <<<<83, 79, 77, 69>>, <<0, 0, 0, 0, 0, 0, 0, 47>>,
         <<153, 9, 217, 99, 64, 0, 232, 65, 0, 141, 59, 119, 57, 16, 40, 143, 51, 141, 0, 87>>>>,
      <<<<83, 79, 77, 69>>, <<0, 0, 0, 0, 0, 0, 0, 48>>,
         <<184, 30, 35, 34, 203, 25, 52, 232, 192, 53, 3, 240, 245, 19, 226, 234, 18, 7, 234, 88>>>>,
      <<<<83, 79, 77, 69>>, <<0, 0, 0, 0, 0, 0, 0, 49>>,
         <<210, 46, 85, 183, 77, 68, 135, 218, 105, 198, 117, 93, 204, 230, 15, 153, 236, 97, 22, 45>>>>,
      <<<<83, 79, 77, 69>>, <<0, 0, 0, 0, 0, 0, 0, 50>>,
         <<55, 105, 163, 10, 132, 239, 47, 20, 244, 206, 218, 239, 116, 212, 178, 47, 49, 48, 82, 131>>>>,
      <<<<83, 79, 77, 69>>, <<0, 0, 0, 0, 0, 0, 0, 51>>,
         <<122, 73, 76, 69, 215, 228, 225, 4, 133, 229, 79, 123, 53, 193, 25, 204, 14, 186, 187, 96>>>>,
      <<<<83, 79, 77, 69>>, <<0, 0, 0, 0, 0, 0, 0, 52>>,
         <<176, 26, 16, 191, 34, 255, 161, 120, 236, 254, 171, 137, 165, 226, 74, 125, 87, 110, 204, 95>>>>,
      <<<<83, 79, 77, 69>>, <<0, 0, 0, 0, 0, 0, 0, 53>>,
         <<228, 250, 247, 15, 140, 187, 158, 148, 77, 230, 159, 66, 241, 62, 171, 251, 50, 28, 167, 123>>>>,
      <<<<83, 79, 77, 69>>, <<0, 0, 0, 0, 0, 0, 0, 54>>,
         <<51, 151, 251, 214, 68, 242, 239, 192, 164, 99, 80, 79, 12, 124, 179, 16, 8, 56, 93, 250>>>>,
      <<<<83, 79, 77, 69>>, <<0, 0, 0, 0, 0, 0, 0, 55>>,
         <<219, 233, 33, 45, 176, 174, 253, 16, 223, 129, 148, 180, 164, 112, 107, 101, 35, 135, 69, 150>>>>,
      <<<<83, 79, 77, 69>>, <<0, 0, 0, 0, 0, 0, 0, 66>>,
         <<211, 10, 137, 39, 157, 202, 82, 115, 249, 124, 73, 204, 251, 154, 100, 221, 197, 103, 78, 201>>>>,
      <<<<83, 79, 77, 69>>, <<0, 0, 0, 0, 0, 1, 226, 64>>,
         <<252, 244, 45, 173, 218, 207, 169, 207, 218, 190, 173, 132, 4, 118, 169, 5, 143, 172, 33, 249>>>>,
      <<<<83, 79, 77, 69>>, <<0, 0, 0, 0, 0, 8, 136, 136>>,
         <<168, 62, 231, 253, 77, 177, 61, 115, 110, 79, 196, 18, 73, 48, 244, 159, 181, 203, 195, 85>>>>,
      <<<<83, 79, 77, 69>>, <<0, 0, 0, 0, 0, 128, 0, 6>>,
         <<161, 250, 127, 138, 96, 152, 253, 150, 134, 51, 70, 68, 231, 230, 242, 47, 9, 93, 24, 141>>>>,
      <<<<83, 79, 77, 69>>, <<0, 0, 0, 0, 0, 232, 186, 58>>,
         <<223, 210, 45, 227, 235, 54, 120, 128, 206, 14, 73, 110, 141, 248, 27, 7, 166, 164, 59, 183>>>>,
      <<<<83, 79, 77, 69>>, <<0, 0, 0, 0, 1, 0, 0, 13>>,
         <<36, 189, 9, 244, 211, 97, 114, 78, 64, 43, 224, 1, 167, 233, 228, 144, 31, 165, 5, 220>>>>,
      <<<<83, 79, 77, 69>>, <<0, 0, 0, 0, 2, 0, 0, 26>>,
         <<14, 73, 156, 181, 243, 41, 203, 121, 188, 170, 218, 171, 192, 205, 214, 34, 116, 163, 244, 66>>>>,
      <<<<83, 79, 77, 69>>, <<128, 0, 0, 0, 0, 0, 0, 0>>,
         <<78, 87, 135, 168, 15, 188, 126, 57, 142, 157, 234, 155, 1, 224, 203, 118, 203, 163, 252, 2>>>>,
      <<<<83, 79, 77, 69>>, <<255, 255, 255, 255, 255, 255, 255, 255>>,
         <<222, 156, 69, 190, 193, 62, 122, 161, 156, 36, 112, 153, 46, 53, 75, 10, 243, 42, 116, 238>>>>,
      <<<<83, 79, 77, 69, 95, 83, 69, 67, 82, 69, 84>>, <<0, 0, 0, 0, 0, 0, 0, 0>>,
         <<111, 181, 77, 63, 11, 192, 86, 105, 69, 217, 148, 233, 172, 41, 138, 252, 143, 60, 81, 164>>>>,
      <<<<83, 79, 77, 69, 95, 83, 69, 67, 82, 69, 84>>, <<0, 0, 0, 0, 0, 0, 0, 1>>,
         <<181, 10, 47, 191, 240, 156, 118, 200, 176, 72, 75, 170, 121, 139, 230, 214, 201, 155, 245, 107>>>>,
      <<<<83, 79, 77, 69, 95, 83, 69, 67, 82, 69, 84>>, <<0, 0, 0, 0, 0, 0, 0, 2>>,
         <<102, 104, 98, 8, 32, 84, 123, 64, 227, 173, 150, 164, 167, 160, 61, 41, 191, 105, 198, 30>>>>,
      <<<<83, 79, 77, 69, 95, 83, 69, 67, 82, 69, 84>>, <<0, 0, 0, 0, 0, 0, 0, 3>>,
         <<90, 25, 158, 162, 62, 10, 200, 252, 240, 242, 26, 150, 101, 125, 187, 181, 150, 140, 32, 145>>>>,
      <<<<83, 79, 77, 69, 95, 83, 69, 67, 82, 69, 84>>, <<0, 0, 0, 0, 0, 0, 0, 4>>,
         <<100, 215, 83, 74, 102, 247, 151, 196, 100, 78, 26, 159, 95, 185, 64, 135, 245, 102, 195, 243>>>>,
      <<<<83, 79, 77, 69, 95, 83, 69, 67, 82, 69, 84>>, <<0, 0, 0, 0, 0, 0, 0, 5>>,
         <<163, 40, 54, 112, 120, 216, 182, 35, 91, 103, 208, 135, 83, 62, 218, 229, 200, 134, 50, 9>>>>,
      <<<<83, 79, 77, 69, 95, 83, 69, 67, 82, 69, 84>>, <<0, 0, 0, 0, 0, 0, 0, 6>>,
         <<189, 88, 0, 157, 124, 4, 98, 54, 165, 119, 173, 255, 252, 253, 225, 236, 83, 146, 128, 151>>>>,
      <<<<83, 79, 77, 69, 95, 83, 69, 67, 82, 69, 84>>, <<0, 0, 0, 0, 0, 0, 0, 7>>,
         <<255, 185, 240, 30, 143, 1, 246, 132, 140, 122, 91, 132, 50, 29, 164, 152, 133, 221, 219, 55>>>>,
      <<<<83, 79, 77, 69, 95, 83, 69, 67, 82, 69, 84>>, <<0, 0, 0, 0, 0, 0, 0, 8>>,
         <<246, 174, 55, 50, 142, 178, 66, 57, 82, 137, 203, 249, 193, 212, 118, 217, 227, 36, 129, 54>>>>,
      <<<<83, 79, 77, 69, 95, 83, 69, 67, 82, 69, 84>>, <<0, 0, 0, 0, 0, 0, 0, 9>>,
         <<53, 184, 155, 220, 188, 114, 136, 183, 159, 170, 68, 227, 201, 7, 236, 223, 148, 8, 30, 84>>>>,
      <<<<83, 79, 77, 69, 95, 83, 69, 67, 82, 69, 84>>, <<0, 0, 0, 0, 0, 0, 0, 10>>,
         <<109, 137, 252, 99, 179, 35, 212, 213, 253, 168, 218, 131, 176, 14, 106, 251, 148, 83, 165, 122>>>>,
      <<<<83, 79, 77, 69, 95, 83, 69, 67, 82, 69, 84>>, <<0, 0, 0, 0, 0, 0, 0, 11>>,
         <<89, 248, 33, 3, 118, 162, 166, 52, 10, 46, 146, 230, 138, 209, 215, 209, 28, 146, 87, 243>>>>,
      <<<<83, 79, 77, 69, 95, 83, 69, 67, 82, 69, 84>>, <<0, 0, 0, 0, 0, 0, 0, 12>>,
         <<157, 1, 234, 37, 159, 167, 208, 39, 187, 160, 147, 76, 204, 153, 162, 40, 213, 46, 206, 239>>>>,
      <<<<83, 79, 77, 69, 95, 83, 69, 67, 82, 69, 84>>, <<0, 0, 0, 0, 0, 0, 0, 13>>,
         <<102, 112, 137, 26, 230, 10, 251, 184, 113, 248, 189, 198, 229, 242, 159, 15, 50, 38, 23, 36>>>>,
      <<<<83, 79, 77, 69, 95, 83, 69, 67, 82, 69, 84>>, <<0, 0, 0, 0, 0, 0, 0, 14>>,
         <<142, 226, 53, 67, 82, 13, 83, 85, 253, 112, 213, 197, 112, 17, 24, 188, 156, 174, 64, 12>>>>,
      <<<<83, 79, 77, 69, 95, 83, 69, 67, 82, 69, 84>>, <<0, 0, 0, 0, 0, 0, 0, 15>>,
         <<189, 28, 218, 205, 220, 30, 55, 142, 99, 211, 183, 143, 122, 37, 129, 185, 141, 86, 58, 79>>>>,
      <<<<83, 79, 77, 69, 95, 83, 69, 67, 82, 69, 84>>, <<0, 0, 0, 0, 0, 0, 0, 16>>,
         <<89, 106, 158, 16, 161, 60, 184, 14, 240, 106, 17, 102, 222, 148, 73, 192, 59, 97, 197, 169>>>>,
      <<<<83, 79, 77, 69, 95, 83, 69, 67, 82, 69, 84>>, <<0, 0, 0, 0, 0, 0, 0, 17>>,
         <<65, 16, 6, 161, 131, 102, 12, 205, 59, 212, 169, 5, 73, 45, 232, 198, 60, 231, 30, 22>>>>,
      <<<<83, 79, 77, 69, 95, 83, 69, 67, 82, 69, 84>>, <<0, 0, 0, 0, 0, 0, 0, 18>>,
         <<98, 253, 13, 206, 34, 66, 79, 69, 227, 65, 222, 21, 37, 32, 41, 57, 56, 234, 91, 108>>>>,
      <<<<83, 79, 77, 69, 95, 83, 69, 67, 82, 69, 84>>, <<0, 0, 0, 0, 0, 0, 0, 19>>,
         <<232, 103, 102, 253, 185, 138, 23, 86, 155, 8, 190, 108, 65, 155, 206, 165, 38, 174, 189, 170>>>>,
      <<<<83, 79, 77, 69, 95, 83, 69, 67, 82, 69, 84>>, <<0, 0, 0, 0, 0, 0, 0, 20>>,
         <<239, 214, 113, 67, 90, 95, 126, 232, 11, 170, 76, 49, 182, 142, 37, 88, 28, 31, 63, 96>>>>,
      <<<<83, 79, 77, 69, 95, 83, 69, 67, 82, 69, 84>>, <<0, 0, 0, 0, 0, 0, 0, 21>>,
         <<152, 178, 223, 33, 2, 29, 75, 115, 100, 138, 69, 67, 147, 48, 87, 102, 0, 213, 106, 105>>>>,
      <<<<83, 79, 77, 69, 95, 83, 69, 67, 82, 69, 84>>, <<0, 0, 0, 0, 0, 0, 0, 22>>,
         <<178, 244, 72, 131, 159, 181, 112, 239, 174, 106, 105, 33, 27, 106, 239, 185, 96, 145, 75, 12>>>>,
      <<<<83, 79, 77, 69, 95, 83, 69, 67, 82, 69, 84>>, <<0, 0, 0, 0, 0, 0, 0, 23>>,
         <<233, 33, 69, 34, 41, 214, 232, 12, 92, 19, 182, 7, 146, 39, 203, 75, 220, 248, 131, 25>>>>,
      <<<<83, 79, 77, 69, 95, 83, 69, 67, 82, 69, 84>>, <<0, 0, 0, 0, 0, 0, 0, 24>>,
         <<182, 92, 211, 240, 2, 59, 177, 124, 12, 40, 95, 82, 22, 117, 6, 216, 88, 195, 131, 55>>>>,
      <<<<83, 79, 77, 69, 95, 83, 69, 67, 82, 69, 84>>, <<0, 0, 0, 0, 0, 0, 0, 25>>,
         <<74, 211, 176, 114, 93, 237, 255, 146, 196, 145, 58, 235, 220, 0, 58, 119, 180, 142, 174, 217>>>>,
      <<<<83, 79, 77, 69, 95, 83, 69, 67, 82, 69, 84>>, <<0, 0, 0, 0, 0, 0, 0, 26>>,
         <<101, 136, 64, 62, 184, 78, 40, 83, 73, 243, 15, 182, 14, 92, 148, 210, 78, 52, 200, 57>>>>,
      <<<<83, 79, 77, 69, 95, 83, 69, 67, 82, 69, 84>>, <<0, 0, 0, 0, 0, 0, 0, 27>>,
         <<116, 15, 173, 221, 50, 183, 80, 76, 104, 6, 12, 72, 132, 128, 158, 214, 190, 144, 203, 49>>>>,
      <<<<83, 79, 77, 69, 95, 83, 69, 67, 82, 69, 84>>, <<0, 0, 0, 0, 0, 0, 0, 28>>,
         <<214, 95, 175, 163, 192, 198, 154, 186, 98, 247, 105, 8, 18, 129, 154, 191, 28, 144, 85, 33>>>>,
      <<<<83, 79, 77, 69, 95, 83, 69, 67, 82, 69, 84>>, <<0, 0, 0, 0, 0, 0, 0, 29>>,
         <<203, 162, 149, 162, 75, 175, 81, 201, 254, 4, 197, 129, 86, 76, 237, 222, 222, 227, 161, 246>>>>,
      <<<<83, 79, 77, 69, 95, 83, 69, 67, 82, 69, 84>>, <<0, 0, 0, 0, 0, 0, 0, 30>>,
         <<211, 235, 137, 107, 131, 91, 149, 105, 11, 160, 151, 172, 92, 142, 124, 20, 207, 193, 160, 180>>>>,
      <<<<83, 79, 77, 69, 95, 83, 69, 67, 82, 69, 84>>, <<0, 0, 0, 0, 0, 0, 0, 31>>,
         <<47, 219, 11, 55, 159, 233, 187, 54, 236, 47, 125, 204, 167, 214, 41, 79, 101, 129, 129, 146>>>>,
      <<<<83, 79, 77, 69, 95, 83, 69, 67, 82, 69, 84>>, <<0, 0, 0, 0, 0, 0, 0, 32>>,
         <<24, 32, 119, 44, 67, 239, 89, 135, 108, 181, 217, 64, 247, 13, 150, 93, 152, 156, 172, 210>>>>,
      <<<<83, 79, 77, 69, 95, 83, 69, 67, 82, 69, 84>>, <<0, 0, 0, 0, 0, 0, 0, 33>>,
         <<11, 185, 140, 228, 83, 164, 25, 159, 140, 99, 54, 170, 92, 24, 102, 150, 237, 13, 150, 233>>>>,
      <<<<83, 79, 77, 69, 95, 83, 69, 67, 82, 69, 84>>, <<0, 0, 0, 0, 0, 0, 0, 34>>,
         <<207, 2, 234, 93, 237, 141, 52, 150, 213, 65, 70, 169, 78, 41, 13, 182, 181, 251, 101, 121>>>>,
      <<<<83, 79, 77, 69, 95, 83, 69, 67, 82, 69, 84>>, <<0, 0, 0, 0, 0, 0, 0, 35>>,
         <<184, 50, 148, 122, 129, 120, 179, 225, 252, 47, 201, 246, 177, 18, 61, 149, 251, 65, 198, 142>>>>,
      <<<<83, 79, 77, 69, 95, 83, 69, 67, 82, 69, 84>>, <<0, 0, 0, 0, 0, 0, 0, 36>>,
         <<104, 63, 72, 215, 235, 133, 154, 225, 76, 65, 7, 221, 70, 98, 161, 61, 234, 101, 194, 36>>>>,
      <<<<83, 79, 77, 69, 95, 83, 69, 67, 82, 69, 84>>, <<0, 0, 0, 0, 0, 0, 0, 37>>,
         <<175, 41, 104, 237, 126, 118, 158, 18, 21, 19, 236, 109, 122, 124, 144, 20, 35, 10, 99, 50>>>>,
      <<<<83, 79, 77, 69, 95, 83, 69, 67, 82, 69, 84>>, <<0, 0, 0, 0, 0, 0, 0, 38>>,
         <<175, 128, 46, 238, 64, 205, 95, 90, 26, 96, 120, 20, 175, 6, 93, 8, 200, 70, 113, 114>>>>,
      <<<<83, 79, 77, 69, 95, 83, 69, 67, 82, 69, 84>>, <<0, 0, 0, 0, 0, 0, 0, 39>>,
         <<58, 150, 69, 236, 50, 218, 58, 53, 135, 74, 56, 34, 174, 130, 41, 166, 191, 108, 71, 32>>>>,
      <<<<83, 79, 77, 69, 95, 83, 69, 67, 82, 69, 84>>, <<0, 0, 0, 0, 0, 0, 0, 40>>,
         <<119, 242, 200, 64, 95, 108, 22, 239, 207, 203, 178, 214, 7, 185, 20, 26, 255, 40, 234, 36>>>>,
      <<<<83, 79, 77, 69, 95, 83, 69, 67, 82, 69, 84>>, <<0, 0, 0, 0, 0, 0, 0, 41>>,
         <<98, 124, 61, 201, 74, 177, 65, 15, 218, 209, 35, 191, 45, 201, 17, 7, 31, 175, 219, 231>>>>,
      <<<<83, 79, 77, 69, 95, 83, 69, 67, 82, 69, 84>>, <<0, 0, 0, 0, 0, 0, 0, 42>>,
         <<30, 80, 77, 97, 112, 139, 68, 114, 18, 22, 27, 12, 222, 165, 24, 169, 60, 237, 80, 243>>>>,
      <<<<83, 79, 77, 69, 95, 83, 69, 67, 82, 69, 84>>, <<0, 0, 0, 0, 0, 0, 0, 43>>,
         <<43, 230, 110, 242, 95, 208, 143, 34, 126, 215, 239, 56, 146, 90, 148, 222, 161, 10, 206, 80>>>>,
      <<<<83, 79, 77, 69, 95, 83, 69, 67, 82, 69, 84>>, <<0, 0, 0, 0, 0, 0, 0, 44>>,
         <<48, 252, 54, 244, 104, 76, 187, 90, 4, 75, 150, 220, 92, 89, 177, 176, 248, 178, 162, 160>>>>,
      <<<<83, 79, 77, 69, 95, 83, 69, 67, 82, 69, 84>>, <<0, 0, 0, 0, 0, 0, 0, 45>>,
         <<99, 208, 80, 1, 142, 148, 48, 86, 66, 194, 173, 148, 179, 208, 62, 28, 19, 229, 108, 124>>>>,
      <<<<83, 79, 77, 69, 95, 83, 69, 67, 82, 69, 84>>, <<0, 0, 0, 0, 0, 0, 0, 46>>,
         <<73, 18, 128, 124, 202, 106, 95, 155, 147, 151, 145, 1, 157, 52, 198, 24, 167, 121, 169, 190>>>>,
      <<<<83, 79, 77, 69, 95, 83, 69, 67, 82, 69, 84>>, <<0, 0, 0, 0, 0, 0, 0, 47>>,
         <<54, 113, 175, 76, 104, 248, 165, 53, 109, 149, 99, 46, 62, 87, 79, 101, 177, 222, 25, 118>>>>,
      <<<<83, 79, 77, 69, 95, 83, 69, 67, 82, 69, 84>>, <<0, 0, 0, 0, 0, 0, 0, 48>>,
         <<6, 15, 237, 241, 54, 163, 71, 29, 160, 17, 231, 150, 166, 90, 131, 101, 11, 192, 228, 236>>>>,
      <<<<83, 79, 77, 69, 95, 83, 69, 67, 82, 69, 84>>, <<0, 0, 0, 0, 0, 0, 0, 49>>,
         <<199, 161, 151, 9, 80, 184, 12, 226, 197, 139, 222, 46, 188, 213, 113, 90, 55, 254, 32, 145>>>>,
      <<<<83, 79, 77, 69, 95, 83, 69, 67, 82, 69, 84>>, <<0, 0, 0, 0, 0, 0, 0, 50>>,
         <<200, 34, 251, 153, 5, 254, 175, 251, 63, 12, 52, 106, 253, 34, 58, 20, 185, 125, 222, 16>>>>,
      <<<<83, 79, 77, 69, 95, 83, 69, 67, 82, 69, 84>>, <<0, 0, 0, 0, 0, 0, 0, 51>>,
         <<245, 65, 255, 55, 92, 162, 48, 200, 71, 172, 192, 227, 52, 121, 100, 211, 231, 7, 189, 150>>>>,
      <<<<83, 79, 77, 69, 95, 83, 69, 67, 82, 69, 84>>, <<0, 0, 0, 0, 0, 0, 0, 52>>,
         <<99, 61, 18, 68, 197, 207, 36, 170, 158, 55, 216, 114, 253, 236, 109, 147, 135, 54, 182, 28>>>>,
      <<<<83, 79, 77, 69, 95, 83, 69, 67, 82, 69, 84>>, <<0, 0, 0, 0, 0, 0, 0, 53>>,
         <<137, 107, 25, 58, 129, 41, 113, 113, 26, 255, 160, 39, 185, 216, 129, 175, 242, 8, 33, 187>>>>,
      <<<<83, 79, 77, 69, 95, 83, 69, 67, 82, 69, 84>>, <<0, 0, 0, 0, 0, 0, 0, 54>>,
         <<207, 139, 153, 255, 175, 178, 15, 195, 162, 120, 222, 223, 215, 112, 178, 202, 70, 123, 25, 15>>>>,
      <<<<83, 79, 77, 69, 95, 83, 69, 67, 82, 69, 84>>, <<0, 0, 0, 0, 0, 0, 0, 55>>,
         <<111, 9, 128, 82, 79, 178, 79, 63, 68, 161, 124, 124, 229, 104, 6, 202, 71, 44, 86, 140>>>>,
      <<<<83, 79, 77, 69, 95, 83, 69, 67, 82, 69, 84>>, <<0, 0, 0, 0, 0, 0, 0, 66>>,
         <<18, 157, 253, 139, 236, 228, 99, 176, 247, 244, 86, 121, 23, 40, 171, 180, 157, 53, 101, 171>>>>,
      <<<<83, 79, 77, 69, 95, 83, 69, 67, 82, 69, 84>>, <<0, 0, 0, 0, 0, 1, 226, 64>>,
         <<38, 69, 75, 195, 179, 175, 235, 219, 138, 5, 150, 30, 119, 125, 77, 36, 215, 72, 216, 94>>>>,
      <<<<83, 79, 77, 69, 95, 83, 69, 67, 82, 69, 84>>, <<0, 0, 0, 0, 0, 8, 136, 136>>,
         <<141, 244, 230, 200, 101, 139, 221, 240, 177, 151, 18, 210, 144, 67, 226, 190, 172, 101, 53, 174>>>>,
      <<<<83, 79, 77, 69, 95, 83, 69, 67, 82, 69, 84>>, <<0, 0, 0, 0, 0, 128, 0, 6>>,
         <<105, 103, 41, 132, 254, 141, 105, 140, 86, 110, 254, 176, 12, 10, 157, 191, 57, 132, 246, 53>>>>,
      <<<<83, 79, 77, 69, 95, 83, 69, 67, 82, 69, 84>>, <<0, 0, 0, 0, 0, 232, 186, 58>>,
         <<228, 98, 10, 228, 149, 94, 154, 253, 147, 39, 57, 59, 153, 29, 139, 24, 75, 189, 87, 185>>>>,
      <<<<83, 79, 77, 69, 95, 83, 69, 67, 82, 69, 84>>, <<0, 0, 0, 0, 1, 0, 0, 13>>,
         <<221, 176, 25, 67, 121, 229, 90, 153, 62, 252, 212, 175, 161, 73, 174, 216, 79, 162, 208, 139>>>>,
      <<<<83, 79, 77, 69, 95, 83, 69, 67, 82, 69, 84>>, <<0, 0, 0, 0, 2, 0, 0, 26>>,
         <<79, 31, 107, 17, 79, 66, 128, 8, 81, 138, 170, 67, 222, 166, 165, 124, 148, 94, 234, 172>>>>,
      <<<<83, 79, 77, 69, 95, 83, 69, 67, 82, 69, 84>>, <<128, 0, 0, 0, 0, 0, 0, 0>>,
         <<75, 135, 248, 77, 148, 203, 86, 89, 58, 103, 159, 220, 128, 49, 238, 119, 135, 181, 120, 96>>>>,
      <<<<83, 79, 77, 69, 95, 83, 69, 67, 82, 69, 84>>, <<255, 255, 255, 255, 255, 255, 255, 255>>,
         <<208, 29, 115, 15, 103, 250, 71, 153, 41, 57, 200, 75, 23, 238, 198, 192, 4, 207, 53, 248>>>> }

\* HMAC-SHA-256(key, 8 big-endian bytes of the counter) as <<key, counter, digest>>
HmacSHA256 ==
    { <<<<>>, <<0, 0, 0, 0, 0, 0, 0, 0>>,
         <<243, 117, 24, 10, 186, 146, 136, 132, 1, 241, 145, 155, 228, 168, 113, 90, 98, 118, 59, 101, 193, 193, 14, 29, 8, 88, 232, 29, 77, 111, 159, 210>>>>,
      <<<<>>, <<0, 0, 0, 0, 0, 0, 0, 1>>,
         <<164, 161, 28, 229, 251, 232, 249, 107, 243, 2, 128, 53, 40, 108, 44, 146, 116, 205, 66, 89, 203, 194, 36, 227, 122, 115, 217, 113, 146, 57, 3, 211>>>>,
      <<<<>>, <<0, 0, 0, 0, 0, 0, 0, 2>>,
         <<201, 253, 143, 92, 212, 233, 71, 187, 9, 1, 253, 244, 114, 99, 9, 179, 187, 206, 124, 138, 63, 59, 32, 236, 74, 15, 56, 87, 205, 144, 140, 49>>>>,
      <<<<>>, <<0, 0, 0, 0, 0, 0, 0, 3>>,
         <<233, 178, 126, 181, 27, 174, 194, 167, 157, 18, 89, 220, 179, 7, 127, 35, 186, 107, 138, 156, 251, 34, 35, 102, 60, 225, 87, 21, 167, 191, 2, 137>>>>,
      <<<<>>, <<0, 0, 0, 0, 0, 0, 0, 4>>,
         <<132, 209, 201, 120, 48, 39, 181, 1, 206, 107, 36, 227, 21, 29, 251, 78, 171, 33, 97, 86, 30, 30, 93, 43, 207, 55, 190, 47, 178, 211, 255, 99>>>>,
      <<<<>>, <<0, 0, 0, 0, 0, 0, 0, 6>>,
         <<228, 173, 17, 26, 40, 116, 113, 219, 127, 10, 169, 175, 202, 149, 170, 220, 205, 106, 244, 19, 234, 76, 232, 167, 44, 40, 53, 27, 220, 169, 254, 236>>>>,
      <<<<>>, <<0, 0, 0, 0, 0, 0, 0, 16>>,
         <<3, 225, 191, 20, 160, 16, 61, 130, 164, 151, 92, 28, 174, 189, 142, 17, 134, 208, 135, 118, 213, 167, 209, 69, 168, 134, 67, 140, 170, 209, 22, 129>>>>,
      <<<<>>, <<0, 0, 0, 0, 0, 0, 0, 29>>,
         <<98, 2, 214, 149, 108, 252, 65, 30, 92, 209, 120, 64, 206, 231, 140, 175, 238, 195, 58, 55, 137, 161, 13, 103, 101, 181, 178, 62, 91, 251, 10, 218>>>>,
      <<<<>>, <<0, 0, 0, 0, 0, 0, 0, 33>>,
         <<22, 118, 166, 70, 160, 81, 68, 206, 160, 205, 166, 111, 7, 82, 211, 45, 214, 238, 34, 32, 91, 60, 39, 182, 105, 138, 213, 120, 54, 46, 108, 60>>>>,
      <<<<>>, <<0, 0, 0, 0, 0, 0, 0, 66>>,
         <<63, 114, 52, 248, 208, 39, 197, 172, 19, 252, 53, 41, 144, 73, 194, 172, 107, 39, 131, 69, 222, 2, 220, 13, 109, 97, 113, 84, 8, 11, 208, 185>>>>,
      <<<<>>, <<0, 0, 0, 0, 0, 8, 136, 136>>,
         <<64, 115, 243, 91, 154, 219, 77, 206, 6, 111, 179, 160, 125, 156, 76, 223, 232, 149, 220, 47, 178, 18, 142, 16, 144, 248, 95, 74, 8, 139, 64, 252>>>>,
      <<<<>>, <<0, 0, 0, 0, 0, 128, 0, 6>>,
         <<240, 254, 150, 154, 118, 50, 158, 130, 25, 45, 132, 158, 177, 170, 232, 53, 213, 191, 146, 65, 139, 17, 60, 112, 101, 167, 132, 128, 65, 157, 14, 146>>>>,
      <<<<>>, <<0, 0, 0, 0, 0, 232, 186, 58>>,
         <<117, 233, 9, 20, 60, 209, 42, 227, 183, 19, 73, 65, 50, 104, 241, 233, 229, 31, 70, 196, 243, 139, 66, 114, 55, 81, 58, 57, 43, 118, 125, 165>>>>,
      <<<<>>, <<0, 0, 0, 0, 1, 0, 0, 13>>,
         <<30, 145, 130, 97, 144, 245, 125, 74, 15, 212, 171, 22, 52, 60, 244, 162, 129, 200, 131, 121, 135, 31, 253, 209, 1, 83, 144, 251, 218, 180, 171, 17>>>>,
      <<<<>>, <<0, 0, 0, 0, 2, 0, 0, 26>>,
         <<25, 50, 248, 237, 120, 217, 202, 152, 233, 216, 184, 8, 230, 153, 113, 127, 142, 94, 233, 175, 156, 228, 41, 103, 57, 141, 233, 144, 15, 32, 181, 139>>>>,
      <<<<>>, <<128, 0, 0, 0, 0, 0, 0, 0>>,
         <<151, 84, 121, 86, 193, 238, 242, 226, 211, 245, 76, 50, 197, 99, 110, 249, 51, 226, 246, 46, 241, 119, 240, 66, 77, 36, 161, 17, 19, 110, 156, 27>>>>,
      <<<<>>, <<255, 255, 255, 255, 255, 255, 255, 255>>,
         <<64, 138, 193, 38, 115, 172, 20, 180, 172, 255, 21, 197, 20, 151, 223, 17, 144, 107, 30, 172, 193, 60, 86, 133, 187, 208, 156, 181, 2, 221, 201, 1>>>>,
      <<<<49, 50, 51, 52, 53, 54, 55, 56, 57, 48, 49, 50, 51, 52, 53, 54, 55, 56, 57, 48>>, <<0, 0, 0, 0, 0, 0, 0, 0>>,
         <<74, 185, 141, 251, 179, 51, 163, 59, 21, 123, 172, 23, 92, 117, 52, 7, 107, 129, 132, 203, 220, 89, 67, 121, 156, 148, 23, 61, 148, 103, 188, 249>>>>,
      <<<<49, 50, 51, 52, 53, 54, 55, 56, 57, 48, 49, 50, 51, 52, 53, 54, 55, 56, 57, 48>>, <<0, 0, 0, 0, 0, 0, 0, 1>>,
         <<236, 157, 79, 104, 123, 78, 254, 106, 204, 82, 16, 6, 114, 102, 11, 132, 192, 231, 33, 11, 160, 56, 33, 65, 248, 236, 185, 7, 150, 202, 185, 18>>>>,
      <<<<49, 50, 51, 52, 53, 54, 55, 56, 57, 48, 49, 50, 51, 52, 53, 54, 55, 56, 57, 48>>, <<0, 0, 0, 0, 0, 0, 0, 2>>,
         <<236, 200, 19, 25, 195, 86, 104, 204, 78, 233, 70, 232, 193, 230, 27, 121, 196, 214, 102, 176, 216, 250, 169, 113, 59, 37, 90, 92, 83, 169, 26, 153>>>>,
      <<<<49, 50, 51, 52, 53, 54, 55, 56, 57, 48, 49, 50, 51, 52, 53, 54, 55, 56, 57, 48>>, <<0, 0, 0, 0, 0, 0, 0, 3>>,
         <<5, 112, 84, 39, 201, 46, 208, 97, 188, 222, 238, 71, 27, 167, 232, 178, 254, 180, 125, 31, 194, 214, 247, 163, 232, 229, 171, 112, 126, 60, 96, 3>>>>,
      <<<<49, 50, 51, 52, 53, 54, 55, 56, 57, 48, 49, 50, 51, 52, 53, 54, 55, 56, 57, 48>>, <<0, 0, 0, 0, 0, 0, 0, 4>>,
         <<233, 111, 192, 123, 152, 191, 237, 161, 82, 162, 144, 9, 112, 167, 224, 226, 221, 108, 22, 181, 245, 70, 211, 173, 25, 56, 58, 168, 69, 82, 62, 94>>>>,
      <<<<49, 50, 51, 52, 53, 54, 55, 56, 57, 48, 49, 50, 51, 52, 53, 54, 55, 56, 57, 48>>, <<0, 0, 0, 0, 0, 0, 0, 5>>,
         <<217, 143, 12, 120, 122, 237, 76, 58, 233, 133, 162, 69, 224, 133, 88, 174, 205, 86, 185, 210, 85, 229, 191, 10, 120, 86, 131, 232, 213, 34, 19, 29>>>>,
      <<<<49, 50, 51, 52, 53, 54, 55, 56, 57, 48, 49, 50, 51, 52, 53, 54, 55, 56, 57, 48>>, <<0, 0, 0, 0, 0, 0, 0, 6>>,
         <<249, 208, 38, 40, 140, 121, 0, 117, 175, 64, 76, 163, 28, 33, 200, 83, 136, 12, 57, 159, 205, 16, 175, 193, 182, 52, 218, 236, 90, 225, 167, 50>>>>,
      <<<<49, 50, 51, 52, 53, 54, 55, 56, 57, 48, 49, 50, 51, 52, 53, 54, 55, 56, 57, 48>>, <<0, 0, 0, 0, 0, 0, 0, 7>>,
         <<230, 187, 203, 141, 185, 152, 7, 190, 157, 171, 48, 131, 0, 167, 25, 3, 158, 184, 255, 93, 145, 122, 248, 179, 184, 255, 183, 227, 130, 19, 245, 242>>>>,
      <<<<49, 50, 51, 52, 53, 54, 55, 56, 57, 48, 49, 50, 51, 52, 53, 54, 55, 56, 57, 48>>, <<0, 0, 0, 0, 0, 0, 0, 8>>,
         <<225, 254, 204, 7, 160, 2, 128, 29, 54, 75, 85, 25, 112, 73, 248, 104, 68, 91, 45, 241, 1, 251, 219, 79, 161, 171, 185, 85, 202, 228, 220, 236>>>>,
      <<<<49, 50, 51, 52, 53, 54, 55, 56, 57, 48, 49, 50, 51, 52, 53, 54, 55, 56, 57, 48>>, <<0, 0, 0, 0, 0, 0, 0, 9>>,
         <<245, 202, 77, 83, 105, 241, 154, 25, 40, 2, 241, 193, 45, 13, 77, 136, 93, 168, 86, 249, 215, 131, 136, 229, 112, 174, 227, 28, 36, 126, 198, 125>>>>,
      <<<<49, 50, 51, 52, 53, 54, 55, 56, 57, 48, 49, 50, 51, 52, 53, 54, 55, 56, 57, 48>>, <<0, 0, 0, 0, 0, 0, 0, 10>>,
         <<194, 10, 29, 0, 184, 241, 87, 142, 43, 148, 131, 179, 7, 98, 203, 245, 106, 42, 83, 62, 218, 76, 97, 214, 20, 27, 140, 73, 106, 198, 92, 130>>>>,
      <<<<49, 50, 51, 52, 53, 54, 55, 56, 57, 48, 49, 50, 51, 52, 53, 54, 55, 56, 57, 48>>, <<0, 0, 0, 0, 0, 0, 0, 11>>,
         <<210, 20, 244, 235, 146, 160, 187, 195, 47, 218, 215, 50, 187, 46, 196, 20, 83, 233, 138, 204, 31, 120, 228, 15, 224, 95, 203, 218, 43, 155, 188, 195>>>>,
      <<<<49, 50, 51, 52, 53, 54, 55, 56, 57, 48, 49, 50, 51, 52, 53, 54, 55, 56, 57, 48>>, <<0, 0, 0, 0, 0, 0, 0, 12>>,
         <<219, 147, 0, 22, 200, 20, 144, 240, 174, 234, 127, 0, 205, 74, 151, 87, 48, 217, 212, 72, 249, 44, 166, 226, 116, 114, 78, 105, 170, 168, 200, 208>>>>,
      <<<<49, 50, 51, 52, 53, 54, 55, 56, 57, 48, 49, 50, 51, 52, 53, 54, 55, 56, 57, 48>>, <<0, 0, 0, 0, 0, 0, 0, 13>>,
         <<18, 153, 121, 3, 55, 152, 125, 241, 153, 250, 33, 25, 165, 234, 1, 6, 233, 224, 147, 132, 92, 40, 153, 81, 126, 202, 141, 192, 141, 253, 49, 39>>>>,
      <<<<49, 50, 51, 52, 53, 54, 55, 56, 57, 48, 49, 50, 51, 52, 53, 54, 55, 56, 57, 48>>, <<0, 0, 0, 0, 0, 0, 0, 14>>,
         <<81, 19, 158, 179, 113, 162, 229, 24, 3, 206, 249, 114, 136, 178, 61, 245, 25, 37, 192, 173, 252, 198, 78, 230, 115, 139, 113, 133, 155, 215, 199, 181>>>>,
      <<<<49, 50, 51, 52, 53, 54, 55, 56, 57, 48, 49, 50, 51, 52, 53, 54, 55, 56, 57, 48>>, <<0, 0, 0, 0, 0, 0, 0, 15>>,
         <<184, 225, 123, 199, 105, 213, 189, 166, 156, 101, 104, 82, 68, 219, 119, 202, 153, 163, 16, 69, 201, 218, 211, 10, 54, 91, 211, 107, 189, 108, 64, 94>>>>,
      <<<<49, 50, 51, 52, 53, 54, 55, 56, 57, 48, 49, 50, 51, 52, 53, 54, 55, 56, 57, 48>>, <<0, 0, 0, 0, 0, 0, 0, 16>>,
         <<46, 27, 4, 210, 45, 112, 199, 118, 254, 132, 173, 14, 205, 155, 249, 21, 23, 218, 81, 26, 228, 143, 73, 63, 95, 178, 117, 216, 71, 209, 60, 229>>>>,
      <<<<49, 50, 51, 52, 53, 54, 55, 56, 57, 48, 49, 50, 51, 52, 53, 54, 55, 56, 57, 48>>, <<0, 0, 0, 0, 0, 0, 0, 17>>,
         <<177, 139, 104, 170, 232, 28, 146, 94, 230, 153, 213, 120, 85, 94, 153, 107, 102, 171, 197, 1, 165, 61, 49, 182, 170, 52, 212, 124, 143, 136, 202, 85>>>>,
      <<<<49, 50, 51, 52, 53, 54, 55, 56, 57, 48, 49, 50, 51, 52, 53, 54, 55, 56, 57, 48>>, <<0, 0, 0, 0, 0, 0, 0, 18>>,
         <<0, 216, 225, 53, 26, 162, 59, 227, 176, 55, 135, 208, 44, 179, 41, 11, 48, 235, 143, 171, 106, 169, 77, 193, 191, 196, 52, 17, 48, 238, 184, 36>>>>,
      <<<<49, 50, 51, 52, 53, 54, 55, 56, 57, 48, 49, 50, 51, 52, 53, 54, 55, 56, 57, 48>>, <<0, 0, 0, 0, 0, 0, 0, 19>>,
         <<166, 164, 147, 130, 96, 88, 150, 58, 230, 205, 3, 220, 118, 146, 50, 98, 1, 177, 230, 17, 128, 99, 175, 245, 196, 92, 118, 152, 55, 121, 58, 210>>>>,
      <<<<49, 50, 51, 52, 53, 54, 55, 56, 57, 48, 49, 50, 51, 52, 53, 54, 55, 56, 57, 48>>, <<0, 0, 0, 0, 0, 0, 0, 20>>,
         <<216, 177, 144, 129, 86, 214, 219, 205, 122, 36, 117, 85, 116, 21, 222, 19, 53, 157, 210, 211, 65, 2, 177, 16, 32, 217, 236, 208, 78, 90, 154, 228>>>>,
      <<<<49, 50, 51, 52, 53, 54, 55, 56, 57, 48, 49, 50, 51, 52, 53, 54, 55, 56, 57, 48>>, <<0, 0, 0, 0, 0, 0, 0, 21>>,
         <<151, 195, 218, 54, 93, 116, 0, 98, 88, 68, 133, 248, 157, 175, 158, 165, 125, 245, 190, 231, 184, 141, 237, 73, 37, 152, 138, 168, 255, 118, 175, 156>>>>,
      <<<<49, 50, 51, 52, 53, 54, 55, 56, 57, 48, 49, 50, 51, 52, 53, 54, 55, 56, 57, 48>>, <<0, 0, 0, 0, 0, 0, 0, 22>>,
         <<9, 235, 222, 255, 87, 19, 157, 149, 244, 168, 19, 36, 215, 59, 49, 162, 11, 220, 157, 161, 163, 6, 213, 93, 114, 6, 160, 17, 65, 149, 247, 101>>>>,
      <<<<49, 50, 51, 52, 53, 54, 55, 56, 57, 48, 49, 50, 51, 52, 53, 54, 55, 56, 57, 48>>, <<0, 0, 0, 0, 0, 0, 0, 23>>,
         <<8, 114, 207, 41, 60, 166, 26, 226, 227, 60, 186, 228, 24, 48, 80, 36, 130, 221, 37, 221, 176, 136, 191, 210, 4, 132, 25, 205, 79, 204, 54, 99>>>>,
      <<<<49, 50, 51, 52, 53, 54, 55, 56, 57, 48, 49, 50, 51, 52, 53, 54, 55, 56, 57, 48>>, <<0, 0, 0, 0, 0, 0, 0, 24>>,
         <<236, 136, 158, 168, 157, 168, 192, 5, 170, 160, 196, 115, 214, 21, 211, 192, 45, 15, 191, 254, 133, 192, 124, 229, 186, 150, 223, 205, 61, 166, 71, 35>>>>,
      <<<<49, 50, 51, 52, 53, 54, 55, 56, 57, 48, 49, 50, 51, 52, 53, 54, 55, 56, 57, 48>>, <<0, 0, 0, 0, 0, 0, 0, 25>>,
         <<50, 17, 150, 228, 155, 136, 249, 22, 123, 123, 220, 245, 48, 179, 28, 215, 185, 187, 182, 56, 205, 247, 134, 18, 46, 2, 116, 14, 65, 164, 151, 204>>>>,
      <<<<49, 50, 51, 52, 53, 54, 55, 56, 57, 48, 49, 50, 51, 52, 53, 54, 55, 56, 57, 48>>, <<0, 0, 0, 0, 0, 0, 0, 26>>,
         <<155, 45, 248, 85, 227, 227, 52, 118, 48, 73, 120, 201, 45, 0, 15, 218, 74, 219, 25, 220, 23, 193, 135, 232, 25, 190, 116, 126, 228, 220, 68, 249>>>>,
      <<<<49, 50, 51, 52, 53, 54, 55, 56, 57, 48, 49, 50, 51, 52, 53, 54, 55, 56, 57, 48>>, <<0, 0, 0, 0, 0, 0, 0, 27>>,
         <<70, 135, 89, 255, 252, 10, 194, 84, 233, 193, 183, 74, 61, 74, 26, 71, 83, 102, 87, 60, 86, 9, 252, 4, 20, 250, 34, 242, 148, 126, 220, 240>>>>,
      <<<<49, 50, 51, 52, 53, 54, 55, 56, 57, 48, 49, 50, 51, 52, 53, 54, 55, 56, 57, 48>>, <<0, 0, 0, 0, 0, 0, 0, 28>>,
         <<101, 216, 199, 46, 148, 186, 236, 160, 83, 30, 232, 224, 250, 230, 230, 232, 123, 163, 94, 136, 19, 74, 208, 207, 147, 49, 122, 98, 49, 125, 8, 172>>>>,
      <<<<49, 50, 51, 52, 53, 54, 55, 56, 57, 48, 49, 50, 51, 52, 53, 54, 55, 56, 57, 48>>, <<0, 0, 0, 0, 0, 0, 0, 29>>,
         <<114, 81, 55, 123, 13, 4, 62, 105, 120, 214, 218, 100, 124, 87, 222, 89, 168, 22, 0, 24, 138, 1, 35, 190, 129, 25, 156, 241, 254, 221, 39, 115>>>>,
      <<<<49, 50, 51, 52, 53, 54, 55, 56, 57, 48, 49, 50, 51, 52, 53, 54, 55, 56, 57, 48>>, <<0, 0, 0, 0, 0, 0, 0, 30>>,
         <<209, 32, 5, 140, 103, 46, 74, 137, 150, 193, 47, 212, 29, 58, 138, 30, 187, 205, 40, 179, 214, 151, 49, 233, 69, 170, 135, 210, 1, 189, 229, 227>>>>,
      <<<<49, 50, 51, 52, 53, 54, 55, 56, 57, 48, 49, 50, 51, 52, 53, 54, 55, 56, 57, 48>>, <<0, 0, 0, 0, 0, 0, 0, 31>>,
         <<9, 86, 172, 89, 182, 201, 41, 139, 59, 174, 182, 106, 13, 50, 136, 16, 253, 36, 29, 191, 37, 253, 153, 93, 28, 190, 114, 248, 223, 108, 252, 85>>>>,
      <<<<49, 50, 51, 52, 53, 54, 55, 56, 57, 48, 49, 50, 51, 52, 53, 54, 55, 56, 57, 48>>, <<0, 0, 0, 0, 0, 0, 0, 32>>,
         <<152, 244, 239, 97, 54, 85, 119, 54, 5, 77, 157, 107, 219, 29, 85, 248, 5, 39, 184, 142, 160, 156, 217, 32, 0, 195, 48, 254, 85, 225, 79, 56>>>>,
      <<<<49, 50, 51, 52, 53, 54, 55, 56, 57, 48, 49, 50, 51, 52, 53, 54, 55, 56, 57, 48>>, <<0, 0, 0, 0, 0, 0, 0, 33>>,
         <<104, 54, 42, 47, 2, 97, 65, 29, 55, 205, 231, 184, 44, 25, 169, 15, 214, 152, 213, 121, 204, 27, 133, 124, 157, 111, 205, 52, 12, 16, 40, 190>>>>,
      <<<<49, 50, 51, 52, 53, 54, 55, 56, 57, 48, 49, 50, 51, 52, 53, 54, 55, 56, 57, 48>>, <<0, 0, 0, 0, 0, 0, 0, 34>>,
         <<164, 122, 1, 167, 41, 132, 166, 118, 56, 129, 173, 121, 55, 125, 224, 45, 12, 180, 75, 72, 253, 19, 31, 98, 255, 87, 231, 203, 184, 140, 122, 220>>>>,
      <<<<49, 50, 51, 52, 53, 54, 55, 56, 57, 48, 49, 50, 51, 52, 53, 54, 55, 56, 57, 48>>, <<0, 0, 0, 0, 0, 0, 0, 35>>,
         <<176, 148, 146, 31, 29, 214, 3, 55, 174, 194, 67, 146, 215, 240, 142, 0, 115, 67, 120, 213, 156, 79, 72, 96, 159, 156, 235, 51, 93, 164, 184, 129>>>>,
      <<<<49, 50, 51, 52, 53, 54, 55, 56, 57, 48, 49, 50, 51, 52, 53, 54, 55, 56, 57, 48>>, <<0, 0, 0, 0, 0, 0, 0, 36>>,
         <<126, 15, 199, 213, 90, 255, 39, 176, 206, 87, 79, 50, 247, 181, 6, 12, 192, 74, 71, 38, 164, 236, 226, 15, 132, 45, 49, 84, 126, 102, 194, 161>>>>,
      <<<<49, 50, 51, 52, 53, 54, 55, 56, 57, 48, 49, 50, 51, 52, 53, 54, 55, 56, 57, 48>>, <<0, 0, 0, 0, 0, 0, 0, 37>>,
         <<150, 114, 88, 126, 211, 47, 122, 222, 36, 110, 119, 0, 137, 246, 55, 229, 140, 170, 211, 34, 182, 153, 24, 49, 129, 104, 197, 91, 217, 46, 236, 133>>>>,
      <<<<49, 50, 51, 52, 53, 54, 55, 56, 57, 48, 49, 50, 51, 52, 53, 54, 55, 56, 57, 48>>, <<0, 0, 0, 0, 0, 0, 0, 38>>,
         <<1, 175, 228, 167, 81, 17, 226, 197, 143, 14, 104, 143, 252, 81, 97, 239, 195, 206, 99, 201, 171, 131, 127, 252, 26, 67, 154, 208, 147, 128, 220, 144>>>>,
      <<<<49, 50, 51, 52, 53, 54, 55, 56, 57, 48, 49, 50, 51, 52, 53, 54, 55, 56, 57, 48>>, <<0, 0, 0, 0, 0, 0, 0, 39>>,
         <<79, 189, 93, 186, 84, 68, 7, 22, 206, 166, 171, 118, 106, 121, 190, 140, 185, 228, 46, 107, 97, 82, 121, 149, 145, 1, 117, 244, 251, 173, 129, 113>>>>,
      <<<<49, 50, 51, 52, 53, 54, 55, 56, 57, 48, 49, 50, 51, 52, 53, 54, 55, 56, 57, 48>>, <<0, 0, 0, 0, 0, 0, 0, 40>>,
         <<165, 127, 62, 82, 66, 186, 24, 186, 174, 22, 214, 55, 88, 110, 255, 130, 190, 70, 187, 70, 112, 247, 224, 0, 221, 233, 115, 139, 163, 153, 79, 191>>>>,
      <<<<49, 50, 51, 52, 53, 54, 55, 56, 57, 48, 49, 50, 51, 52, 53, 54, 55, 56, 57, 48>>, <<0, 0, 0, 0, 0, 0, 0, 41>>,
         <<1, 113, 19, 254, 255, 98, 252, 236, 211, 11, 232, 28, 186, 94, 175, 48, 18, 19, 145, 158, 192, 227, 87, 51, 76, 77, 51, 121, 106, 187, 227, 18>>>>,
      <<<<49, 50, 51, 52, 53, 54, 55, 56, 57, 48, 49, 50, 51, 52, 53, 54, 55, 56, 57, 48>>, <<0, 0, 0, 0, 0, 0, 0, 42>>,
         <<202, 89, 253, 237, 76, 245, 176, 47, 83, 115, 122, 162, 160, 228, 19, 201, 55, 55, 25, 213, 44, 245, 214, 130, 104, 228, 166, 144, 231, 155, 240, 240>>>>,
      <<<<49, 50, 51, 52, 53, 54, 55, 56, 57, 48, 49, 50, 51, 52, 53, 54, 55, 56, 57, 48>>, <<0, 0, 0, 0, 0, 0, 0, 43>>,
         <<50, 247, 252, 12, 37, 232, 129, 68, 117, 248, 243, 217, 255, 219, 209, 194, 114, 191, 188, 117, 8, 95, 211, 110, 210, 141, 6, 189, 47, 155, 228, 221>>>>,
      <<<<49, 50, 51, 52, 53, 54, 55, 56, 57, 48, 49, 50, 51, 52, 53, 54, 55, 56, 57, 48>>, <<0, 0, 0, 0, 0, 0, 0, 44>>,
         <<252, 3, 53, 130, 223, 214, 107, 46, 18, 75, 86, 251, 218, 188, 253, 190, 74, 173, 151, 7, 21, 184, 208, 223, 226, 190, 99, 11, 140, 245, 127, 205>>>>,
      <<<<49, 50, 51, 52, 53, 54, 55, 56, 57, 48, 49, 50, 51, 52, 53, 54, 55, 56, 57, 48>>, <<0, 0, 0, 0, 0, 0, 0, 45>>,
         <<111, 60, 184, 159, 25, 238, 6, 190, 197, 220, 216, 56, 250, 220, 188, 81, 13, 135, 57, 1, 145, 159, 95, 40, 65, 138, 242, 55, 208, 98, 13, 19>>>>,
      <<<<49, 50, 51, 52, 53, 54, 55, 56, 57, 48, 49, 50, 51, 52, 53, 54, 55, 56, 57, 48>>, <<0, 0, 0, 0, 0, 0, 0, 46>>,
         <<207, 132, 48, 35, 73, 92, 196, 207, 139, 43, 13, 148, 238, 239, 207, 124, 102, 194, 109, 240, 103, 168, 59, 43, 228, 59, 248, 110, 48, 215, 162, 87>>>>,
      <<<<49, 50, 51, 52, 53, 54, 55, 56, 57, 48, 49, 50, 51, 52, 53, 54, 55, 56, 57, 48>>, <<0, 0, 0, 0, 0, 0, 0, 47>>,
         <<249, 33, 3, 146, 19, 136, 30, 19, 30, 237, 3, 36, 2, 33, 72, 242, 52, 155, 39, 119, 185, 165, 216, 15, 101, 147, 209, 198, 81, 31, 134, 17>>>>,
      <<<<49, 50, 51, 52, 53, 54, 55, 56, 57, 48, 49, 50, 51, 52, 53, 54, 55, 56, 57, 48>>, <<0, 0, 0, 0, 0, 0, 0, 48>>,
         <<94, 203, 89, 134, 169, 93, 124, 111, 41, 152, 121, 197, 50, 140, 86, 106, 181, 215, 147, 163, 165, 92, 114, 106, 66, 193, 94, 191, 103, 169, 180, 10>>>>,
      <<<<49, 50, 51, 52, 53, 54, 55, 56, 57, 48, 49, 50, 51, 52, 53, 54, 55, 56, 57, 48>>, <<0, 0, 0, 0, 0, 0, 0, 49>>,
         <<157, 77, 255, 51, 187, 203, 56, 233, 237, 85, 23, 79, 148, 160, 231, 158, 144, 101, 116, 49, 9, 169, 137, 201, 43, 176, 49, 173, 197, 197, 205, 6>>>>,
      <<<<49, 50, 51, 52, 53, 54, 55, 56, 57, 48, 49, 50, 51, 52, 53, 54, 55, 56, 57, 48>>, <<0, 0, 0, 0, 0, 0, 0, 50>>,
         <<225, 168, 186, 152, 250, 59, 186, 229, 147, 207, 183, 245, 148, 107, 85, 78, 62, 24, 38, 127, 168, 25, 10, 168, 203, 194, 69, 50, 51, 120, 236, 75>>>>,
      <<<<49, 50, 51, 52, 53, 54, 55, 56, 57, 48, 49, 50, 51, 52, 53, 54, 55, 56, 57, 48>>, <<0, 0, 0, 0, 0, 0, 0, 51>>,
         <<219, 115, 27, 42, 5, 115, 242, 91, 196, 32, 195, 231, 248, 94, 226, 89, 193, 82, 10, 81, 86, 254, 201, 178, 37, 239, 15, 11, 96, 24, 196, 146>>>>,
      <<<<49, 50, 51, 52, 53, 54, 55, 56, 57, 48, 49, 50, 51, 52, 53, 54, 55, 56, 57, 48>>, <<0, 0, 0, 0, 0, 0, 0, 52>>,
         <<80, 130, 58, 245, 148, 108, 183, 62, 82, 48, 200, 214, 192, 96, 228, 143, 128, 230, 58, 191, 114, 241, 142, 12, 186, 79, 20, 224, 33, 61, 106, 130>>>>,
      <<<<49, 50, 51, 52, 53, 54, 55, 56, 57, 48, 49, 50, 51, 52, 53, 54, 55, 56, 57, 48>>, <<0, 0, 0, 0, 0, 0, 0, 53>>,
         <<12, 0, 167, 72, 184, 225, 21, 210, 162, 195, 63, 43, 47, 196, 242, 0, 39, 153, 141, 106, 135, 79, 236, 75, 46, 173, 231, 158, 15, 238, 208, 228>>>>,
      <<<<49, 50, 51, 52, 53, 54, 55, 56, 57, 48, 49, 50, 51, 52, 53, 54, 55, 56, 57, 48>>, <<0, 0, 0, 0, 0, 0, 0, 54>>,
         <<47, 160, 31, 195, 248, 80, 209, 149, 253, 108, 135, 224, 208, 35, 242, 145, 70, 83, 122, 146, 223, 212, 213, 5, 140, 107, 133, 159, 174, 180, 30, 236>>>>,
      <<<<49, 50, 51, 52, 53, 54, 55, 56, 57, 48, 49, 50, 51, 52, 53, 54, 55, 56, 57, 48>>, <<0, 0, 0, 0, 0, 0, 0, 55>>,
         <<11, 216, 17, 165, 149, 13, 0, 108, 69, 251, 62, 240, 146, 226, 184, 144, 184, 108, 166, 234, 56, 44, 39, 157, 18, 200, 101, 113, 116, 151, 201, 81>>>>,
      <<<<49, 50, 51, 52, 53, 54, 55, 56, 57, 48, 49, 50, 51, 52, 53, 54, 55, 56, 57, 48>>, <<0, 0, 0, 0, 0, 0, 0, 66>>,
         <<46, 79, 109, 82, 200, 206, 137, 98, 113, 165, 250, 28, 211, 209, 128, 39, 189, 115, 215, 116, 218, 151, 239, 38, 181, 145, 89, 28, 135, 138, 158, 197>>>>,
      <<<<49, 50, 51, 52, 53, 54, 55, 56, 57, 48, 49, 50, 51, 52, 53, 54, 55, 56, 57, 48>>, <<0, 0, 0, 0, 0, 1, 226, 64>>,
         <<57, 173, 27, 106, 99, 166, 83, 169, 45, 163, 78, 178, 0, 238, 124, 167, 55, 166, 195, 91, 77, 179, 4, 133, 175, 112, 52, 184, 6, 131, 159, 255>>>>,
      <<<<49, 50, 51, 52, 53, 54, 55, 56, 57, 48, 49, 50, 51, 52, 53, 54, 55, 56, 57, 48>>, <<0, 0, 0, 0, 0, 8, 136, 136>>,
         <<94, 87, 2, 140, 160, 122, 90, 135, 83, 218, 159, 56, 105, 15, 20, 149, 57, 169, 206, 54, 94, 40, 146, 61, 226, 141, 45, 132, 171, 168, 123, 195>>>>,
      <<<<49, 50, 51, 52, 53, 54, 55, 56, 57, 48, 49, 50, 51, 52, 53, 54, 55, 56, 57, 48>>, <<0, 0, 0, 0, 0, 128, 0, 6>>,
         <<86, 210, 218, 87, 162, 146, 23, 185, 15, 15, 36, 84, 165, 84, 210, 63, 223, 163, 235, 103, 61, 167, 111, 87, 85, 45, 26, 81, 27, 74, 62, 249>>>>,
      <<<<49, 50, 51, 52, 53, 54, 55, 56, 57, 48, 49, 50, 51, 52, 53, 54, 55, 56, 57, 48>>, <<0, 0, 0, 0, 0, 232, 186, 58>>,
         <<112, 30, 192, 129, 232, 6, 190, 103, 160, 134, 220, 11, 154, 182, 249, 29, 116, 9, 129, 211, 121, 153, 231, 200, 156, 206, 10, 49, 186, 29, 10, 140>>>>,
      <<<<49, 50, 51, 52, 53, 54, 55, 56, 57, 48, 49, 50, 51, 52, 53, 54, 55, 56, 57, 48>>, <<0, 0, 0, 0, 1, 0, 0, 13>>,
         <<137, 109, 245, 64, 170, 19, 248, 233, 26, 217, 133, 107, 166, 156, 2, 208, 130, 178, 128, 200, 146, 95, 222, 230, 51, 212, 170, 220, 35, 2, 135, 68>>>>,
      <<<<49, 50, 51, 52, 53, 54, 55, 56, 57, 48, 49, 50, 51, 52, 53, 54, 55, 56, 57, 48>>, <<0, 0, 0, 0, 2, 0, 0, 26>>,
         <<82, 199, 145, 30, 216, 213, 213, 142, 229, 151, 152, 34, 20, 147, 205, 45, 165, 70, 27, 190, 67, 159, 222, 249, 202, 53, 26, 62, 66, 198, 187, 213>>>>,
      <<<<49, 50, 51, 52, 53, 54, 55, 56, 57, 48, 49, 50, 51, 52, 53, 54, 55, 56, 57, 48>>, <<128, 0, 0, 0, 0, 0, 0, 0>>,
         <<189, 62, 5, 15, 120, 248, 253, 111, 181, 197, 219, 133, 208, 172, 249, 213, 249, 230, 158, 203, 173, 139, 109, 69, 238, 228, 3, 31, 81, 25, 189, 9>>>>,
      <<<<49, 50, 51, 52, 53, 54, 55, 56, 57, 48, 49, 50, 51, 52, 53, 54, 55, 56, 57, 48>>, <<255, 255, 255, 255, 255, 255, 255, 255>>,
         <<133, 10, 151, 18, 104, 253, 124, 180, 249, 1, 168, 12, 77, 10, 37, 58, 33, 63, 250, 143, 106, 42, 45, 227, 143, 71, 212, 9, 222, 148, 71, 137>>>>,
      <<<<72>>, <<0, 0, 0, 0, 0, 0, 0, 0>>,
         <<150, 92, 31, 198, 227, 105, 217, 154, 169, 160, 55, 206, 165, 170, 125, 210, 136, 113, 219, 65, 89, 187, 9, 44, 251, 183, 204, 131, 245, 237, 149, 139>>>>,
      <<<<72>>, <<0, 0, 0, 0, 0, 0, 0, 1>>,
         <<20, 48, 17, 30, 248, 93, 105, 192, 172, 232, 189, 146, 192, 213, 49, 121, 222, 234, 126, 213, 24, 61, 164, 226, 126, 211, 64, 163, 238, 131, 25, 119>>>>,
      <<<<72>>, <<0, 0, 0, 0, 0, 0, 0, 2>>,
         <<88, 39, 217, 39, 131, 54, 143, 101, 157, 88, 255, 161, 169, 188, 77, 116, 5, 12, 114, 235, 38, 246, 186, 127, 202, 186, 46, 213, 24, 44, 123, 82>>>>,
      <<<<72>>, <<0, 0, 0, 0, 0, 0, 0, 3>>,
         <<100, 136, 117, 183, 135, 37, 209, 84, 49, 14, 143, 230, 21, 50, 39, 120, 225, 126, 193, 58, 74, 237, 74, 215, 184, 85, 220, 109, 192, 243, 35, 151>>>>,
      <<<<72>>, <<0, 0, 0, 0, 0, 0, 0, 4>>,
         <<139, 74, 29, 96, 232, 203, 135, 28, 220, 157, 71, 136, 133, 172, 71, 198, 60, 44, 21, 17, 76, 227, 218, 153, 231, 72, 117, 117, 213, 130, 99, 64>>>>,
      <<<<72>>, <<0, 0, 0, 0, 0, 0, 0, 6>>,
         <<26, 196, 137, 227, 118, 136, 166, 37, 10, 30, 28, 250, 137, 84, 225, 243, 123, 222, 143, 71, 248, 193, 149, 0, 192, 85, 37, 66, 109, 227, 208, 25>>>>,
      <<<<72>>, <<0, 0, 0, 0, 0, 0, 0, 16>>,
         <<143, 13, 219, 3, 123, 19, 103, 236, 157, 196, 46, 240, 113, 57, 118, 127, 166, 99, 252, 217, 153, 241, 242, 207, 191, 116, 175, 193, 90, 5, 186, 254>>>>,
      <<<<72>>, <<0, 0, 0, 0, 0, 0, 0, 29>>,
         <<20, 190, 176, 49, 250, 44, 6, 206, 105, 126, 188, 172, 200, 124, 204, 140, 100, 112, 170, 238, 158, 198, 61, 22, 94, 121, 95, 95, 50, 172, 160, 116>>>>,
      <<<<72>>, <<0, 0, 0, 0, 0, 0, 0, 33>>,
         <<49, 47, 224, 230, 16, 138, 76, 16, 251, 196, 213, 52, 22, 163, 216, 202, 109, 219, 101, 197, 216, 248, 86, 48, 110, 79, 121, 210, 187, 185, 170, 227>>>>,
      <<<<72>>, <<0, 0, 0, 0, 0, 0, 0, 66>>,
         <<252, 200, 152, 126, 133, 11, 7, 251, 10, 248, 123, 237, 165, 219, 74, 240, 182, 242, 73, 43, 48, 50, 4, 239, 68, 114, 93, 151, 163, 192, 37, 73>>>>,
      <<<<72>>, <<0, 0, 0, 0, 0, 8, 136, 136>>,
         <<31, 219, 176, 28, 19, 141, 184, 179, 4, 177, 255, 2, 125, 39, 17, 197, 121, 185, 13, 130, 68, 189, 221, 125, 117, 46, 157, 142, 96, 42, 51, 196>>>>,
      <<<<72>>, <<0, 0, 0, 0, 0, 128, 0, 6>>,
         <<15, 74, 252, 215, 226, 29, 12, 164, 199, 78, 63, 218, 82, 163, 174, 88, 44, 128, 140, 140, 28, 28, 55, 184, 1, 46, 229, 104, 70, 139, 14, 91>>>>,
      <<<<72>>, <<0, 0, 0, 0, 0, 232, 186, 58>>,
         <<202, 92, 54, 105, 132, 132, 221, 5, 180, 135, 138, 254, 111, 49, 0, 16, 190, 103, 169, 48, 77, 182, 16, 104, 98, 164, 167, 90, 25, 13, 233, 51>>>>,
      <<<<72>>, <<0, 0, 0, 0, 1, 0, 0, 13>>,
         <<196, 206, 43, 92, 238, 92, 75, 124, 63, 112, 126, 98, 145, 131, 215, 138, 96, 87, 115, 121, 135, 172, 156, 175, 190, 120, 212, 222, 114, 105, 55, 230>>>>,
      <<<<72>>, <<0, 0, 0, 0, 2, 0, 0, 26>>,
         <<64, 82, 158, 104, 115, 35, 153, 118, 96, 17, 213, 95, 115, 33, 158, 4, 106, 41, 86, 134, 32, 8, 71, 154, 127, 8, 97, 22, 220, 119, 222, 93>>>>,
      <<<<72>>, <<128, 0, 0, 0, 0, 0, 0, 0>>,
         <<142, 108, 125, 118, 240, 236, 81, 128, 72, 38, 2, 109, 147, 89, 31, 3, 73, 233, 119, 39, 137, 180, 211, 110, 244, 207, 82, 27, 222, 42, 78, 67>>>>,
      <<<<72>>, <<255, 255, 255, 255, 255, 255, 255, 255>>,
         <<20, 165, 5, 117, 73, 142, 126, 131, 54, 49, 140, 174, 27, 243, 8, 11, 150, 210, 152, 137, 26, 23, 51, 165, 92, 94, 169, 134, 93, 18, 44, 146>>>>,
      <<<<72, 101>>, <<0, 0, 0, 0, 0, 0, 0, 0>>,
         <<167, 235, 235, 42, 196, 177, 182, 154, 85, 113, 171, 46, 163, 110, 235, 208, 121, 236, 247, 21, 36, 173, 101, 143, 59, 82, 173, 67, 54, 133, 161, 239>>>>,
      <<<<72, 101>>, <<0, 0, 0, 0, 0, 0, 0, 1>>,
         <<49, 44, 90, 79, 56, 67, 239, 211, 114, 218, 214, 68, 120, 119, 104, 25, 69, 219, 163, 146, 45, 122, 199, 110, 21, 221, 6, 237, 42, 192, 98, 222>>>>,
      <<<<72, 101>>, <<0, 0, 0, 0, 0, 0, 0, 2>>,
         <<195, 217, 155, 242, 162, 41, 86, 0, 151, 102, 21, 196, 43, 134, 27, 209, 1, 122, 185, 71, 246, 105, 180, 191, 225, 94, 247, 143, 89, 123, 49, 97>>>>,
      <<<<72, 101>>, <<0, 0, 0, 0, 0, 0, 0, 3>>,
         <<170, 193, 67, 76, 138, 207, 222, 19, 159, 10, 249, 172, 213, 99, 51, 209, 55, 170, 62, 55, 213, 39, 114, 205, 86, 239, 248, 60, 221, 20, 223, 41>>>>,
      <<<<72, 101>>, <<0, 0, 0, 0, 0, 0, 0, 4>>,
         <<26, 28, 235, 112, 21, 227, 73, 9, 207, 36, 155, 43, 243, 15, 140, 63, 247, 158, 144, 240, 86, 116, 142, 181, 233, 29, 199, 32, 63, 58, 125, 127>>>>,
      <<<<72, 101>>, <<0, 0, 0, 0, 0, 0, 0, 6>>,
         <<198, 139, 83, 40, 123, 137, 239, 201, 228, 128, 147, 154, 155, 29, 98, 1, 174, 32, 161, 7, 176, 88, 89, 166, 110, 160, 106, 54, 21, 34, 123, 125>>>>,
      <<<<72, 101>>, <<0, 0, 0, 0, 0, 0, 0, 16>>,
         <<109, 36, 18, 151, 49, 9, 56, 41, 9, 60, 193, 115, 242, 97, 49, 166, 164, 86, 171, 246, 182, 194, 63, 132, 169, 78, 121, 132, 228, 193, 105, 246>>>>,
      <<<<72, 101>>, <<0, 0, 0, 0, 0, 0, 0, 29>>,
         <<80, 83, 157, 68, 131, 228, 162, 16, 186, 195, 182, 229, 119, 90, 86, 95, 231, 85, 189, 18, 231, 131, 206, 212, 7, 167, 105, 124, 7, 166, 205, 201>>>>,
      <<<<72, 101>>, <<0, 0, 0, 0, 0, 0, 0, 33>>,
         <<161, 153, 209, 186, 225, 67, 241, 167, 186, 250, 149, 251, 117, 151, 231, 107, 19, 165, 27, 140, 252, 39, 143, 111, 139, 82, 76, 153, 19, 20, 242, 18>>>>,
      <<<<72, 101>>, <<0, 0, 0, 0, 0, 0, 0, 66>>,
         <<8, 52, 167, 154, 62, 189, 109, 95, 201, 111, 103, 193, 186, 19, 227, 231, 34, 11, 172, 58, 112, 192, 232, 242, 235, 200, 26, 11, 115, 148, 134, 251>>>>,
      <<<<72, 101>>, <<0, 0, 0, 0, 0, 8, 136, 136>>,
         <<182, 180, 196, 87, 231, 126, 43, 214, 178, 187, 93, 52, 233, 181, 191, 93, 22, 27, 243, 48, 88, 4, 125, 73, 238, 211, 22, 230, 73, 199, 130, 32>>>>,
      <<<<72, 101>>, <<0, 0, 0, 0, 0, 128, 0, 6>>,
         <<104, 253, 243, 8, 188, 41, 208, 70, 166, 28, 237, 170, 5, 77, 121, 37, 92, 26, 207, 78, 255, 251, 99, 196, 207, 153, 218, 162, 101, 63, 40, 164>>>>,
      <<<<72, 101>>, <<0, 0, 0, 0, 0, 232, 186, 58>>,
         <<49, 58, 151, 23, 135, 159, 172, 122, 98, 62, 59, 244, 206, 4, 206, 128, 201, 58, 220, 208, 126, 186, 132, 216, 51, 157, 222, 221, 251, 190, 54, 127>>>>,
      <<<<72, 101>>, <<0, 0, 0, 0, 1, 0, 0, 13>>,
         <<218, 1, 202, 71, 48, 63, 53, 207, 138, 229, 109, 171, 138, 113, 166, 69, 51, 199, 182, 92, 110, 217, 4, 36, 207, 164, 145, 215, 102, 157, 40, 112>>>>,
      <<<<72, 101>>, <<0, 0, 0, 0, 2, 0, 0, 26>>,
         <<20, 81, 142, 180, 85, 103, 137, 162, 128, 223, 246, 142, 66, 178, 244, 121, 212, 6, 11, 32, 61, 111, 63, 107, 25, 30, 128, 213, 191, 137, 96, 243>>>>,
      <<<<72, 101>>, <<128, 0, 0, 0, 0, 0, 0, 0>>,
         <<124, 26, 129, 109, 97, 165, 204, 40, 73, 44, 224, 24, 129, 154, 160, 216, 96, 50, 94, 213, 197, 65, 63, 218, 250, 118, 53, 155, 115, 46, 81, 213>>>>,
      <<<<72, 101>>, <<255, 255, 255, 255, 255, 255, 255, 255>>,
         <<239, 163, 136, 175, 107, 160, 44, 55, 62, 6, 36, 67, 66, 202, 13, 200, 104, 16, 214, 208, 210, 223, 29, 186, 87, 203, 123, 110, 179, 243, 109, 157>>>>,
      <<<<72, 101, 108>>, <<0, 0, 0, 0, 0, 0, 0, 0>>,
         <<183, 190, 58, 235, 128, 93, 201, 86, 22, 36, 117, 215, 154, 147, 193, 208, 62, 162, 159, 96, 202, 147, 27, 237, 169, 24, 239, 172, 44, 176, 31, 253>>>>,
      <<<<72, 101, 108>>, <<0, 0, 0, 0, 0, 0, 0, 1>>,
         <<122, 110, 154, 142, 142, 4, 138, 81, 91, 213, 18, 158, 20, 104, 130, 149, 21, 229, 208, 162, 140, 145, 243, 102, 10, 233, 221, 237, 108, 203, 23, 170>>>>,
      <<<<72, 101, 108>>, <<0, 0, 0, 0, 0, 0, 0, 2>>,
         <<149, 223, 70, 82, 85, 152, 112, 235, 187, 220, 10, 147, 34, 237, 29, 194, 11, 96, 193, 99, 115, 159, 226, 93, 251, 9, 29, 61, 234, 144, 8, 83>>>>,
      <<<<72, 101, 108>>, <<0, 0, 0, 0, 0, 0, 0, 3>>,
         <<187, 42, 182, 218, 25, 37, 238, 165, 137, 152, 215, 231, 175, 162, 20, 163, 242, 22, 105, 134, 208, 79, 233, 210, 54, 254, 110, 227, 250, 18, 102, 114>>>>,
      <<<<72, 101, 108>>, <<0, 0, 0, 0, 0, 0, 0, 4>>,
         <<151, 140, 81, 118, 116, 67, 7, 227, 120, 189, 117, 211, 66, 56, 213, 35, 250, 211, 113, 116, 239, 182, 98, 11, 163, 221, 83, 6, 237, 136, 162, 132>>>>,
      <<<<72, 101, 108>>, <<0, 0, 0, 0, 0, 0, 0, 6>>,
         <<26, 39, 201, 116, 230, 221, 233, 66, 212, 36, 93, 14, 12, 22, 238, 39, 192, 10, 160, 29, 56, 109, 76, 134, 218, 241, 188, 216, 218, 1, 45, 1>>>>,
      <<<<72, 101, 108>>, <<0, 0, 0, 0, 0, 0, 0, 16>>,
         <<243, 208, 236, 182, 115, 39, 240, 38, 95, 82, 22, 104, 140, 184, 203, 26, 177, 147, 116, 191, 168, 156, 240, 218, 2, 108, 207, 70, 59, 78, 166, 71>>>>,
      <<<<72, 101, 108>>, <<0, 0, 0, 0, 0, 0, 0, 29>>,
         <<32, 179, 216, 105, 62, 243, 157, 14, 117, 84, 181, 27, 249, 44, 36, 119, 31, 230, 58, 21, 55, 174, 63, 215, 53, 184, 201, 55, 127, 146, 66, 165>>>>,
      <<<<72, 101, 108>>, <<0, 0, 0, 0, 0, 0, 0, 33>>,
         <<26, 255, 242, 44, 247, 124, 210, 97, 207, 105, 71, 42, 108, 176, 37, 223, 177, 182, 156, 14, 228, 143, 149, 148, 7, 216, 58, 250, 124, 29, 110, 131>>>>,
      <<<<72, 101, 108>>, <<0, 0, 0, 0, 0, 0, 0, 66>>,
         <<54, 191, 30, 110, 86, 46, 110, 249, 195, 56, 178, 233, 109, 90, 100, 193, 73, 233, 138, 95, 34, 203, 212, 128, 130, 179, 108, 228, 51, 231, 5, 172>>>>,
      <<<<72, 101, 108>>, <<0, 0, 0, 0, 0, 8, 136, 136>>,
         <<34, 158, 185, 23, 135, 21, 216, 181, 78, 200, 70, 66, 203, 226, 84, 146, 40, 93, 84, 59, 66, 130, 226, 107, 44, 181, 250, 209, 184, 115, 5, 224>>>>,
      <<<<72, 101, 108>>, <<0, 0, 0, 0, 0, 128, 0, 6>>,
         <<177, 93, 221, 71, 146, 42, 173, 32, 159, 67, 70, 163, 128, 30, 129, 3, 245, 92, 81, 223, 211, 158, 45, 96, 188, 116, 28, 106, 157, 29, 238, 119>>>>,
      <<<<72, 101, 108>>, <<0, 0, 0, 0, 0, 232, 186, 58>>,
         <<87, 255, 68, 153, 175, 75, 84, 186, 216, 225, 63, 58, 9, 216, 205, 215, 2, 130, 162, 191, 117, 71, 45, 110, 245, 221, 210, 240, 117, 162, 11, 42>>>>,
      <<<<72, 101, 108>>, <<0, 0, 0, 0, 1, 0, 0, 13>>,
         <<234, 137, 148, 34, 127, 179, 69, 250, 192, 98, 67, 91, 204, 46, 38, 96, 61, 121, 88, 190, 132, 182, 250, 13, 241, 182, 140, 6, 135, 36, 210, 29>>>>,
      <<<<72, 101, 108>>, <<0, 0, 0, 0, 2, 0, 0, 26>>,
         <<154, 156, 46, 169, 94, 174, 223, 69, 221, 227, 116, 104, 191, 133, 244, 40, 227, 196, 105, 88, 191, 13, 193, 148, 136, 68, 33, 105, 178, 205, 243, 107>>>>,
      <<<<72, 101, 108>>, <<128, 0, 0, 0, 0, 0, 0, 0>>,
         <<228, 236, 78, 103, 62, 3, 61, 148, 240, 176, 54, 80, 104, 214, 247, 31, 84, 20, 238, 248, 196, 10, 130, 0, 71, 134, 157, 182, 8, 215, 101, 212>>>>,
      <<<<72, 101, 108>>, <<255, 255, 255, 255, 255, 255, 255, 255>>,
         <<31, 31, 192, 46, 44, 147, 67, 220, 86, 16, 27, 8, 172, 15, 106, 185, 125, 152, 23, 75, 80, 232, 44, 113, 31, 210, 234, 28, 151, 66, 194, 230>>>>,
      <<<<72, 101, 108, 108>>, <<0, 0, 0, 0, 0, 0, 0, 0>>,
         <<24, 89, 64, 160, 8, 72, 231, 49, 200, 183, 142, 1, 231, 117, 58, 182, 75, 147, 58, 188, 165, 210, 42, 144, 233, 85, 79, 64, 248, 113, 6, 36>>>>,
      <<<<72, 101, 108, 108>>, <<0, 0, 0, 0, 0, 0, 0, 1>>,
         <<161, 101, 166, 151, 98, 27, 171, 187, 104, 145, 247, 4, 83, 27, 32, 44, 43, 154, 51, 93, 183, 93, 70, 195, 12, 24, 188, 114, 29, 23, 146, 63>>>>,
      <<<<72, 101, 108, 108>>, <<0, 0, 0, 0, 0, 0, 0, 2>>,
         <<103, 191, 131, 1, 61, 108, 172, 148, 81, 175, 139, 130, 194, 179, 142, 77, 211, 218, 184, 29, 228, 87, 190, 121, 147, 162, 7, 150, 109, 147, 53, 71>>>>,
      <<<<72, 101, 108, 108>>, <<0, 0, 0, 0, 0, 0, 0, 3>>,
         <<51, 227, 220, 36, 137, 219, 240, 174, 242, 183, 80, 6, 4, 4, 98, 89, 146, 236, 163, 157, 196, 1, 41, 254, 199, 78, 111, 49, 73, 203, 244, 72>>>>,
      <<<<72, 101, 108, 108>>, <<0, 0, 0, 0, 0, 0, 0, 4>>,
         <<161, 5, 158, 87, 118, 52, 11, 38, 16, 241, 233, 255, 20, 236, 105, 66, 94, 115, 50, 250, 156, 182, 227, 181, 58, 113, 152, 64, 194, 42, 193, 119>>>>,
      <<<<72, 101, 108, 108>>, <<0, 0, 0, 0, 0, 0, 0, 6>>,
         <<2, 29, 31, 196, 167, 62, 141, 178, 149, 177, 51, 245, 89, 194, 183, 226, 116, 13, 18, 199, 152, 46, 100, 205, 150, 42, 179, 175, 173, 169, 179, 64>>>>,
      <<<<72, 101, 108, 108>>, <<0, 0, 0, 0, 0, 0, 0, 16>>,
         <<78, 20, 23, 212, 202, 61, 134, 9, 18, 181, 36, 132, 113, 125, 147, 158, 109, 57, 87, 25, 123, 22, 160, 102, 134, 239, 242, 198, 12, 36, 50, 201>>>>,
      <<<<72, 101, 108, 108>>, <<0, 0, 0, 0, 0, 0, 0, 29>>,
         <<10, 80, 197, 135, 130, 210, 188, 49, 13, 220, 184, 23, 143, 28, 113, 39, 63, 105, 104, 164, 183, 206, 64, 1, 42, 44, 47, 116, 113, 249, 190, 123>>>>,
      <<<<72, 101, 108, 108>>, <<0, 0, 0, 0, 0, 0, 0, 33>>,
         <<65, 149, 188, 47, 139, 129, 231, 230, 230, 136, 4, 122, 169, 1, 133, 233, 141, 88, 210, 8, 51, 97, 196, 8, 20, 213, 77, 154, 255, 3, 222, 50>>>>,
      <<<<72, 101, 108, 108>>, <<0, 0, 0, 0, 0, 0, 0, 66>>,
         <<220, 148, 173, 251, 159, 63, 39, 27, 127, 202, 103, 195, 105, 105, 217, 9, 86, 60, 168, 230, 159, 181, 242, 218, 20, 241, 62, 105, 113, 186, 178, 250>>>>,
      <<<<72, 101, 108, 108>>, <<0, 0, 0, 0, 0, 8, 136, 136>>,
         <<60, 139, 209, 89, 57, 43, 185, 95, 16, 124, 56, 221, 56, 221, 156, 207, 64, 154, 155, 9, 209, 95, 191, 101, 231, 36, 134, 229, 37, 194, 125, 237>>>>,
      <<<<72, 101, 108, 108>>, <<0, 0, 0, 0, 0, 128, 0, 6>>,
         <<167, 45, 227, 241, 10, 39, 78, 223, 135, 118, 63, 214, 16, 123, 231, 192, 22, 18, 76, 1, 121, 155, 132, 235, 81, 8, 104, 173, 144, 35, 21, 240>>>>,
      <<<<72, 101, 108, 108>>, <<0, 0, 0, 0, 0, 232, 186, 58>>,
         <<77, 220, 255, 210, 188, 151, 129, 57, 243, 43, 193, 81, 14, 216, 190, 120, 63, 220, 68, 112, 209, 160, 246, 78, 31, 37, 98, 141, 181, 184, 77, 179>>>>,
      <<<<72, 101, 108, 108>>, <<0, 0, 0, 0, 1, 0, 0, 13>>,
         <<76, 159, 73, 250, 96, 173, 222, 42, 213, 130, 84, 195, 236, 107, 128, 31, 186, 159, 112, 151, 196, 61, 239, 104, 33, 242, 60, 138, 138, 29, 167, 39>>>>,
      <<<<72, 101, 108, 108>>, <<0, 0, 0, 0, 2, 0, 0, 26>>,
         <<217, 103, 254, 243, 19, 84, 233, 11, 215, 82, 218, 57, 13, 155, 13, 47, 132, 14, 121, 135, 222, 184, 142, 67, 246, 230, 89, 238, 227, 152, 164, 125>>>>,
      <<<<72, 101, 108, 108>>, <<128, 0, 0, 0, 0, 0, 0, 0>>,
         <<73, 16, 17, 22, 144, 80, 201, 181, 156, 124, 20, 191, 177, 173, 173, 36, 13, 139, 46, 96, 209, 205, 183, 186, 32, 134, 177, 228, 127, 76, 189, 54>>>>,
      <<<<72, 101, 108, 108>>, <<255, 255, 255, 255, 255, 255, 255, 255>>,
         <<243, 230, 241, 28, 3, 178, 236, 219, 12, 219, 76, 118, 105, 60, 119, 246, 71, 221, 64, 220, 180, 171, 93, 196, 152, 214, 113, 196, 130, 84, 52, 127>>>>,
      <<<<72, 101, 108, 108, 111>>, <<0, 0, 0, 0, 0, 0, 0, 0>>,
         <<229, 229, 30, 41, 186, 245, 162, 234, 129, 121, 117, 231, 210, 162, 64, 87, 228, 30, 122, 92, 9, 107, 101, 212, 253, 83, 28, 250, 76, 212, 119, 241>>>>,
      <<<<72, 101, 108, 108, 111>>, <<0, 0, 0, 0, 0, 0, 0, 1>>,
         <<90, 163, 185, 199, 126, 31, 85, 111, 53, 194, 3, 191, 105, 55, 189, 91, 107, 16, 195, 31, 155, 252, 135, 175, 3, 172, 79, 137, 50, 144, 158, 132>>>>,
      <<<<72, 101, 108, 108, 111>>, <<0, 0, 0, 0, 0, 0, 0, 2>>,
         <<165, 159, 72, 25, 251, 223, 133, 58, 86, 216, 133, 152, 235, 20, 248, 17, 5, 168, 113, 51, 189, 61, 86, 207, 25, 214, 237, 202, 203, 227, 184, 115>>>>,
      <<<<72, 101, 108, 108, 111>>, <<0, 0, 0, 0, 0, 0, 0, 3>>,
         <<217, 1, 2, 58, 189, 200, 233, 124, 92, 145, 171, 14, 50, 64, 205, 117, 253, 239, 126, 161, 176, 110, 126, 209, 28, 57, 31, 4, 113, 208, 38, 165>>>>,
      <<<<72, 101, 108, 108, 111>>, <<0, 0, 0, 0, 0, 0, 0, 4>>,
         <<171, 93, 47, 214, 189, 133, 200, 224, 137, 188, 56, 228, 148, 9, 157, 204, 78, 130, 181, 237, 47, 141, 205, 245, 182, 51, 23, 91, 97, 37, 48, 42>>>>,
      <<<<72, 101, 108, 108, 111>>, <<0, 0, 0, 0, 0, 0, 0, 6>>,
         <<223, 213, 30, 91, 175, 218, 139, 83, 209, 161, 75, 57, 161, 237, 236, 62, 223, 180, 228, 232, 237, 238, 53, 184, 180, 243, 35, 248, 56, 175, 3, 106>>>>,
      <<<<72, 101, 108, 108, 111>>, <<0, 0, 0, 0, 0, 0, 0, 16>>,
         <<116, 57, 219, 216, 20, 236, 201, 11, 55, 52, 201, 79, 195, 7, 184, 65, 65, 110, 113, 123, 137, 110, 239, 27, 224, 247, 228, 112, 168, 193, 81, 142>>>>,
      <<<<72, 101, 108, 108, 111>>, <<0, 0, 0, 0, 0, 0, 0, 29>>,
         <<82, 164, 188, 230, 106, 204, 181, 232, 126, 150, 162, 39, 71, 179, 47, 45, 191, 81, 81, 101, 190, 79, 131, 255, 243, 141, 137, 246, 90, 252, 43, 51>>>>,
      <<<<72, 101, 108, 108, 111>>, <<0, 0, 0, 0, 0, 0, 0, 33>>,
         <<94, 2, 98, 112, 240, 60, 82, 192, 42, 122, 252, 37, 217, 192, 119, 116, 169, 26, 3, 12, 109, 192, 128, 6, 38, 90, 8, 81, 137, 209, 60, 30>>>>,
      <<<<72, 101, 108, 108, 111>>, <<0, 0, 0, 0, 0, 0, 0, 66>>,
         <<27, 51, 218, 91, 163, 242, 103, 94, 95, 126, 54, 149, 69, 90, 167, 244, 79, 92, 90, 2, 247, 108, 31, 226, 89, 199, 239, 85, 67, 48, 186, 12>>>>,
      <<<<72, 101, 108, 108, 111>>, <<0, 0, 0, 0, 0, 8, 136, 136>>,
         <<231, 182, 116, 129, 41, 38, 226, 30, 185, 75, 244, 15, 3, 150, 243, 96, 170, 252, 38, 13, 71, 229, 219, 98, 217, 156, 107, 92, 177, 156, 54, 213>>>>,
      <<<<72, 101, 108, 108, 111>>, <<0, 0, 0, 0, 0, 128, 0, 6>>,
         <<128, 177, 8, 200, 234, 39, 13, 117, 119, 64, 243, 238, 34, 220, 176, 174, 0, 32, 103, 241, 206, 165, 203, 159, 2, 230, 149, 60, 60, 27, 102, 150>>>>,
      <<<<72, 101, 108, 108, 111>>, <<0, 0, 0, 0, 0, 232, 186, 58>>,
         <<17, 103, 85, 135, 163, 84, 126, 64, 180, 222, 87, 27, 214, 152, 183, 21, 1, 73, 188, 42, 201, 159, 28, 42, 77, 150, 187, 42, 254, 161, 145, 39>>>>,
      <<<<72, 101, 108, 108, 111>>, <<0, 0, 0, 0, 1, 0, 0, 13>>,
         <<111, 135, 139, 174, 230, 218, 147, 183, 33, 26, 147, 238, 92, 204, 145, 201, 25, 147, 251, 153, 170, 126, 116, 197, 102, 45, 75, 97, 99, 137, 239, 42>>>>,
      <<<<72, 101, 108, 108, 111>>, <<0, 0, 0, 0, 2, 0, 0, 26>>,
         <<30, 109, 132, 182, 138, 40, 167, 20, 98, 239, 220, 154, 127, 169, 128, 245, 183, 159, 56, 130, 102, 1, 247, 229, 203, 184, 31, 130, 162, 228, 125, 87>>>>,
      <<<<72, 101, 108, 108, 111>>, <<128, 0, 0, 0, 0, 0, 0, 0>>,
         <<39, 151, 138, 2, 12, 187, 106, 104, 90, 207, 227, 18, 3, 22, 186, 239, 14, 80, 230, 165, 119, 168, 246, 55, 17, 78, 233, 239, 204, 241, 165, 100>>>>,
      <<<<72, 101, 108, 108, 111>>, <<255, 255, 255, 255, 255, 255, 255, 255>>,
         <<71, 167, 114, 196, 37, 150, 66, 0, 20, 37, 180, 56, 172, 226, 133, 36, 134, 40, 117, 101, 23, 230, 136, 192, 103, 65, 173, 233, 82, 246, 223, 51>>>>,
      <<<<72, 101, 108, 108, 111, 33>>, <<0, 0, 0, 0, 0, 0, 0, 0>>,
         <<195, 166, 37, 33, 121, 169, 19, 238, 168, 217, 2, 80, 166, 25, 119, 181, 250, 102, 220, 194, 41, 134, 174, 24, 227, 100, 12, 253, 175, 139, 120, 134>>>>,
      <<<<72, 101, 108, 108, 111, 33>>, <<0, 0, 0, 0, 0, 0, 0, 1>>,
         <<176, 249, 149, 33, 143, 110, 44, 45, 109, 159, 229, 14, 10, 253, 29, 124, 185, 212, 171, 134, 222, 116, 36, 139, 0, 176, 37, 119, 95, 53, 62, 145>>>>,
      <<<<72, 101, 108, 108, 111, 33>>, <<0, 0, 0, 0, 0, 0, 0, 2>>,
         <<124, 85, 71, 206, 26, 101, 242, 95, 249, 177, 226, 77, 241, 102, 161, 146, 53, 179, 2, 48, 225, 191, 118, 204, 44, 221, 107, 122, 79, 135, 153, 41>>>>,
      <<<<72, 101, 108, 108, 111, 33>>, <<0, 0, 0, 0, 0, 0, 0, 3>>,
         <<233, 23, 40, 1, 22, 63, 246, 144, 42, 135, 45, 87, 242, 4, 135, 124, 213, 130, 206, 159, 150, 200, 77, 33, 32, 244, 126, 64, 199, 166, 164, 94>>>>,
      <<<<72, 101, 108, 108, 111, 33>>, <<0, 0, 0, 0, 0, 0, 0, 4>>,
         <<122, 0, 180, 129, 121, 99, 205, 160, 141, 240, 31, 48, 2, 129, 228, 122, 74, 103, 67, 176, 248, 156, 249, 181, 234, 70, 3, 47, 12, 178, 76, 41>>>>,
      <<<<72, 101, 108, 108, 111, 33>>, <<0, 0, 0, 0, 0, 0, 0, 6>>,
         <<120, 205, 175, 73, 48, 7, 74, 77, 177, 44, 103, 85, 235, 94, 7, 47, 125, 223, 249, 61, 117, 136, 73, 192, 128, 49, 147, 232, 198, 14, 163, 86>>>>,
      <<<<72, 101, 108, 108, 111, 33>>, <<0, 0, 0, 0, 0, 0, 0, 16>>,
         <<27, 72, 124, 71, 225, 0, 155, 47, 148, 251, 22, 155, 148, 75, 243, 109, 211, 204, 47, 178, 248, 190, 248, 83, 250, 236, 86, 209, 114, 5, 164, 210>>>>,
      <<<<72, 101, 108, 108, 111, 33>>, <<0, 0, 0, 0, 0, 0, 0, 29>>,
         <<38, 148, 239, 163, 213, 25, 197, 83, 66, 246, 161, 86, 63, 227, 221, 150, 8, 145, 7, 249, 171, 235, 238, 133, 0, 228, 66, 164, 243, 9, 124, 147>>>>,
      <<<<72, 101, 108, 108, 111, 33>>, <<0, 0, 0, 0, 0, 0, 0, 33>>,
         <<76, 39, 39, 93, 215, 45, 176, 241, 175, 201, 207, 183, 77, 181, 20, 247, 184, 86, 236, 192, 244, 214, 116, 110, 117, 114, 70, 45, 89, 53, 90, 43>>>>,
      <<<<72, 101, 108, 108, 111, 33>>, <<0, 0, 0, 0, 0, 0, 0, 66>>,
         <<218, 112, 125, 131, 136, 66, 55, 87, 238, 29, 74, 211, 171, 81, 112, 252, 37, 157, 46, 63, 109, 81, 92, 53, 146, 188, 221, 0, 23, 130, 167, 34>>>>,
      <<<<72, 101, 108, 108, 111, 33>>, <<0, 0, 0, 0, 0, 8, 136, 136>>,
         <<159, 40, 36, 142, 5, 56, 4, 57, 215, 194, 27, 123, 99, 86, 200, 3, 213, 145, 100, 113, 181, 106, 140, 73, 163, 39, 239, 97, 233, 111, 104, 83>>>>,
      <<<<72, 101, 108, 108, 111, 33>>, <<0, 0, 0, 0, 0, 128, 0, 6>>,
         <<126, 189, 136, 34, 38, 214, 87, 189, 147, 178, 59, 214, 205, 21, 250, 111, 151, 239, 255, 23, 110, 222, 204, 171, 137, 143, 14, 171, 8, 241, 23, 130>>>>,
      <<<<72, 101, 108, 108, 111, 33>>, <<0, 0, 0, 0, 0, 232, 186, 58>>,
         <<77, 61, 119, 11, 34, 6, 36, 230, 255, 127, 41, 223, 35, 33, 216, 130, 51, 90, 49, 127, 115, 238, 241, 137, 38, 250, 233, 151, 234, 79, 102, 152>>>>,
      <<<<72, 101, 108, 108, 111, 33>>, <<0, 0, 0, 0, 1, 0, 0, 13>>,
         <<207, 29, 128, 239, 109, 235, 34, 126, 1, 154, 92, 10, 114, 130, 52, 192, 63, 22, 172, 138, 194, 119, 29, 228, 96, 253, 64, 68, 37, 151, 20, 84>>>>,
      <<<<72, 101, 108, 108, 111, 33>>, <<0, 0, 0, 0, 2, 0, 0, 26>>,
         <<53, 3, 214, 71, 81, 128, 217, 230, 36, 83, 22, 26, 151, 158, 10, 37, 174, 13, 17, 66, 31, 70, 107, 188, 15, 173, 34, 115, 225, 140, 161, 198>>>>,
      <<<<72, 101, 108, 108, 111, 33>>, <<128, 0, 0, 0, 0, 0, 0, 0>>,
         <<231, 199, 75, 160, 61, 225, 205, 167, 173, 105, 65, 98, 89, 113, 163, 235, 35, 228, 37, 179, 14, 75, 175, 253, 114, 3, 139, 91, 27, 104, 212, 187>>>>,
      <<<<72, 101, 108, 108, 111, 33>>, <<255, 255, 255, 255, 255, 255, 255, 255>>,
         <<12, 166, 14, 54, 152, 226, 106, 103, 201, 78, 63, 50, 238, 182, 70, 87, 130, 203, 96, 71, 82, 152, 165, 151, 11, 93, 93, 0, 150, 143, 145, 236>>>>,
      <<<<83, 79, 77, 69>>, <<0, 0, 0, 0, 0, 0, 0, 0>>,
         <<209, 68, 202, 161, 30, 68, 192, 60, 84, 248, 64, 171, 54, 173, 238, 53, 144, 86, 138, 128, 219, 44, 106, 75, 147, 246, 142, 8, 10, 142, 120, 212>>>>,
      <<<<83, 79, 77, 69>>, <<0, 0, 0, 0, 0, 0, 0, 1>>,
         <<21, 123, 128, 221, 156, 238, 154, 125, 214, 88, 95, 240, 38, 1, 27, 113, 200, 170, 81, 161, 93, 98, 252, 215, 56, 58, 55, 231, 224, 128, 176, 241>>>>,
      <<<<83, 79, 77, 69>>, <<0, 0, 0, 0, 0, 0, 0, 2>>,
         <<85, 5, 58, 55, 64, 137, 132, 117, 30, 165, 99, 5, 168, 190, 87, 62, 84, 234, 23, 187, 84, 144, 135, 140, 98, 83, 194, 151, 191, 2, 88, 28>>>>,
      <<<<83, 79, 77, 69>>, <<0, 0, 0, 0, 0, 0, 0, 3>>,
         <<148, 125, 137, 182, 52, 55, 95, 88, 116, 183, 121, 74, 182, 148, 193, 120, 80, 88, 86, 200, 96, 249, 168, 112, 9, 221, 9, 46, 123, 163, 14, 74>>>>,
      <<<<83, 79, 77, 69>>, <<0, 0, 0, 0, 0, 0, 0, 4>>,
         <<74, 186, 255, 118, 88, 119, 181, 90, 97, 150, 231, 25, 92, 146, 74, 172, 0, 252, 218, 218, 249, 194, 71, 168, 116, 27, 249, 219, 115, 112, 5, 173>>>>,
      <<<<83, 79, 77, 69>>, <<0, 0, 0, 0, 0, 0, 0, 5>>,
         <<212, 122, 177, 247, 15, 64, 171, 121, 5, 193, 175, 87, 172, 90, 97, 245, 158, 189, 140, 191, 50, 213, 15, 122, 243, 43, 30, 182, 113, 46, 238, 244>>>>,
      <<<<83, 79, 77, 69>>, <<0, 0, 0, 0, 0, 0, 0, 6>>,
         <<30, 128, 27, 171, 149, 82, 90, 55, 46, 40, 9, 56, 54, 203, 143, 192, 44, 161, 231, 4, 85, 95, 40, 131, 118, 133, 110, 172, 129, 70, 200, 182>>>>,
      <<<<83, 79, 77, 69>>, <<0, 0, 0, 0, 0, 0, 0, 7>>,
         <<144, 228, 103, 48, 61, 162, 105, 202, 30, 146, 174, 212, 150, 44, 227, 104, 208, 218, 71, 77, 30, 132, 239, 80, 117, 197, 4, 202, 45, 20, 60, 181>>>>,
      <<<<83, 79, 77, 69>>, <<0, 0, 0, 0, 0, 0, 0, 8>>,
         <<167, 12, 205, 212, 70, 126, 72, 144, 6, 139, 252, 48, 115, 173, 38, 24, 195, 100, 49, 155, 174, 99, 119, 252, 113, 28, 3, 24, 255, 62, 9, 49>>>>,
      <<<<83, 79, 77, 69>>, <<0, 0, 0, 0, 0, 0, 0, 9>>,
         <<216, 196, 39, 67, 134, 21, 82, 121, 13, 226, 214, 82, 249, 172, 231, 40, 145, 89, 123, 142, 131, 77, 161, 75, 115, 6, 106, 15, 164, 240, 208, 182>>>>,
      <<<<83, 79, 77, 69>>, <<0, 0, 0, 0, 0, 0, 0, 10>>,
         <<137, 8, 160, 204, 164, 238, 79, 13, 37, 189, 79, 165, 31, 139, 232, 18, 155, 14, 26, 198, 3, 47, 213, 123, 164, 225, 55, 231, 237, 220, 138, 62>>>>,
      <<<<83, 79, 77, 69>>, <<0, 0, 0, 0, 0, 0, 0, 11>>,
         <<184, 111, 31, 101, 165, 25, 232, 168, 124, 216, 221, 214, 225, 227, 88, 160, 248, 70, 141, 13, 8, 105, 200, 193, 124, 101, 134, 84, 57, 30, 209, 25>>>>,
      <<<<83, 79, 77, 69>>, <<0, 0, 0, 0, 0, 0, 0, 12>>,
         <<196, 113, 244, 47, 109, 25, 252, 144, 168, 221, 169, 53, 132, 188, 155, 177, 157, 237, 194, 92, 121, 44, 197, 76, 62, 67, 228, 172, 47, 215, 223, 201>>>>,
      <<<<83, 79, 77, 69>>, <<0, 0, 0, 0, 0, 0, 0, 13>>,
         <<216, 54, 122, 138, 109, 108, 49, 57, 93, 61, 225, 206, 14, 26, 157, 111, 66, 73, 62, 104, 49, 92, 135, 249, 88, 5, 156, 156, 219, 22, 58, 13>>>>,
      <<<<83, 79, 77, 69>>, <<0, 0, 0, 0, 0, 0, 0, 14>>,
         <<244, 109, 36, 45, 209, 125, 160, 250, 112, 2, 144, 4, 234, 202, 197, 245, 121, 219, 119, 20, 133, 170, 78, 118, 137, 61, 46, 96, 20, 226, 173, 190>>>>,
      <<<<83, 79, 77, 69>>, <<0, 0, 0, 0, 0, 0, 0, 15>>,
         <<121, 141, 12, 246, 192, 60, 127, 241, 66, 224, 45, 152, 97, 236, 206, 84, 146, 240, 101, 86, 112, 17, 192, 70, 227, 202, 142, 130, 85, 132, 70, 154>>>>,
      <<<<83, 79, 77, 69>>, <<0, 0, 0, 0, 0, 0, 0, 16>>,
         <<37, 129, 164, 238, 211, 149, 133, 175, 24, 1, 1, 187, 82, 41, 27, 164, 58, 135, 168, 106, 86, 67, 143, 32, 229, 65, 132, 35, 63, 190, 155, 57>>>>,
      <<<<83, 79, 77, 69>>, <<0, 0, 0, 0, 0, 0, 0, 17>>,
         <<132, 243, 4, 28, 53, 142, 185, 81, 234, 68, 63, 3, 230, 93, 212, 179, 203, 57, 42, 181, 5, 155, 47, 22, 91, 60, 255, 54, 62, 116, 221, 44>>>>,
      <<<<83, 79, 77, 69>>, <<0, 0, 0, 0, 0, 0, 0, 18>>,
         <<251, 65, 147, 176, 147, 9, 44, 30, 251, 252, 74, 21, 42, 184, 63, 227, 221, 160, 166, 37, 195, 250, 201, 6, 36, 26, 104, 33, 48, 182, 21, 61>>>>,
      <<<<83, 79, 77, 69>>, <<0, 0, 0, 0, 0, 0, 0, 19>>,
         <<59, 152, 46, 212, 251, 232, 227, 197, 76, 227, 120, 87, 21, 60, 223, 79, 166, 240, 84, 148, 185, 82, 150, 4, 189, 128, 48, 202, 27, 162, 189, 77>>>>,
      <<<<83, 79, 77, 69>>, <<0, 0, 0, 0, 0, 0, 0, 20>>,
         <<143, 182, 227, 13, 180, 48, 34, 106, 139, 41, 167, 52, 178, 255, 211, 254, 112, 191, 111, 183, 184, 50, 97, 238, 139, 70, 101, 79, 65, 255, 142, 221>>>>,
      <<<<83, 79, 77, 69>>, <<0, 0, 0, 0, 0, 0, 0, 21>>,
         <<221, 159, 167, 147, 198, 72, 56, 153, 170, 249, 217, 56, 154, 11, 1, 162, 221, 129, 136, 200, 233, 54, 128, 142, 238, 127, 180, 161, 18, 183, 23, 101>>>>,
      <<<<83, 79, 77, 69>>, <<0, 0, 0, 0, 0, 0, 0, 22>>,
         <<116, 170, 46, 178, 61, 139, 130, 178, 80, 235, 49, 60, 218, 121, 239, 122, 34, 249, 4, 73, 183, 228, 98, 151, 14, 28, 243, 51, 174, 215, 187, 103>>>>,
      <<<<83, 79, 77, 69>>, <<0, 0, 0, 0, 0, 0, 0, 23>>,
         <<127, 53, 141, 11, 244, 193, 56, 127, 143, 111, 106, 253, 132, 106, 47, 192, 14, 112, 106, 211, 208, 91, 55, 223, 144, 102, 191, 98, 161, 217, 142, 180>>>>,
      <<<<83, 79, 77, 69>>, <<0, 0, 0, 0, 0, 0, 0, 24>>,
         <<27, 234, 112, 13, 148, 30, 161, 106, 181, 8, 253, 82, 124, 130, 144, 43, 246, 171, 208, 244, 246, 236, 136, 158, 247, 69, 123, 229, 155, 170, 21, 200>>>>,
      <<<<83, 79, 77, 69>>, <<0, 0, 0, 0, 0, 0, 0, 25>>,
         <<217, 145, 90, 205, 39, 85, 117, 71, 58, 50, 191, 235, 148, 234, 52, 143, 142, 10, 76, 209, 77, 212, 226, 51, 80, 48, 211, 21, 215, 64, 33, 48>>>>,
      <<<<83, 79, 77, 69>>, <<0, 0, 0, 0, 0, 0, 0, 26>>,
         <<42, 112, 166, 31, 196, 182, 203, 248, 181, 130, 52, 142, 162, 55, 77, 65, 193, 45, 155, 181, 232, 111, 68, 70, 21, 78, 51, 181, 144, 141, 61, 25>>>>,
      <<<<83, 79, 77, 69>>, <<0, 0, 0, 0, 0, 0, 0, 27>>,
         <<109, 36, 4, 174, 130, 149, 69, 0, 42, 1, 230, 19, 73, 80, 79, 31, 186, 7, 89, 106, 48, 49, 221, 248, 228, 114, 60, 49, 30, 82, 43, 13>>>>,
      <<<<83, 79, 77, 69>>, <<0, 0, 0, 0, 0, 0, 0, 28>>,
         <<144, 20, 255, 172, 14, 207, 129, 101, 14, 191, 190, 212, 253, 45, 152, 16, 199, 239, 164, 46, 221, 226, 244, 69, 55, 131, 102, 158, 81, 59, 25, 237>>>>,
      <<<<83, 79, 77, 69>>, <<0, 0, 0, 0, 0, 0, 0, 29>>,
         <<160, 161, 252, 124, 72, 67, 189, 127, 92, 132, 50, 172, 28, 52, 189, 198, 185, 0, 39, 247, 165, 49, 127, 167, 126, 199, 43, 204, 92, 210, 67, 117>>>>,
      <<<<83, 79, 77, 69>>, <<0, 0, 0, 0, 0, 0, 0, 30>>,
         <<171, 146, 29, 85, 168, 212, 88, 129, 30, 48, 139, 45, 151, 114, 118, 11, 101, 222, 53, 202, 127, 132, 25, 40, 170, 80, 82, 47, 246, 31, 140, 86>>>>,
      <<<<83, 79, 77, 69>>, <<0, 0, 0, 0, 0, 0, 0, 31>>,
         <<63, 217, 9, 112, 38, 135, 141, 52, 0, 62, 166, 175, 252, 251, 49, 179, 171, 95, 28, 221, 251, 161, 221, 50, 229, 142, 131, 245, 71, 118, 116, 193>>>>,
      <<<<83, 79, 77, 69>>, <<0, 0, 0, 0, 0, 0, 0, 32>>,
         <<190, 179, 193, 120, 254, 158, 128, 245, 23, 173, 68, 234, 105, 107, 125, 106, 72, 77, 198, 189, 64, 166, 159, 84, 2, 169, 252, 78, 134, 243, 67, 243>>>>,
      <<<<83, 79, 77, 69>>, <<0, 0, 0, 0, 0, 0, 0, 33>>,
         <<25, 65, 117, 66, 141, 227, 231, 26, 176, 40, 90, 181, 81, 115, 111, 40, 241, 59, 113, 63, 102, 145, 193, 58, 128, 204, 155, 117, 198, 12, 136, 175>>>>,
      <<<<83, 79, 77, 69>>, <<0, 0, 0, 0, 0, 0, 0, 34>>,
         <<111, 60, 11, 224, 99, 137, 52, 222, 53, 175, 24, 13, 38, 151, 111, 139, 15, 199, 11, 41, 220, 17, 214, 102, 190, 37, 254, 226, 181, 23, 44, 25>>>>,
      <<<<83, 79, 77, 69>>, <<0, 0, 0, 0, 0, 0, 0, 35>>,
         <<213, 192, 254, 185, 240, 42, 224, 122, 36, 154, 36, 192, 123, 181, 106, 33, 94, 169, 212, 160, 189, 0, 118, 190, 221, 114, 154, 39, 86, 78, 40, 45>>>>,
      <<<<83, 79, 77, 69>>, <<0, 0, 0, 0, 0, 0, 0, 36>>,
         <<110, 164, 73, 254, 83, 44, 51, 134, 52, 88, 210, 37, 179, 132, 193, 153, 225, 17, 100, 74, 55, 61, 121, 142, 179, 96, 119, 232, 81, 217, 101, 83>>>>,
      <<<<83, 79, 77, 69>>, <<0, 0, 0, 0, 0, 0, 0, 37>>,
         <<133, 93, 169, 174, 40, 235, 40, 184, 108, 80, 86, 178, 142, 43, 219, 220, 99, 175, 128, 54, 77, 25, 77, 76, 229, 170, 253, 108, 155, 198, 120, 57>>>>,
      <<<<83, 79, 77, 69>>, <<0, 0, 0, 0, 0, 0, 0, 38>>,
         <<21, 63, 164, 126, 41, 216, 49, 177, 190, 140, 207, 23, 200, 219, 153, 3, 46, 171, 12, 228, 91, 200, 117, 78, 246, 186, 101, 128, 53, 254, 185, 246>>>>,
      <<<<83, 79, 77, 69>>, <<0, 0, 0, 0, 0, 0, 0, 39>>,
         <<119, 199, 178, 19, 187, 211, 158, 12, 182, 247, 85, 99, 234, 44, 148, 167, 14, 147, 41, 77, 104, 241, 234, 5, 49, 122, 39, 107, 145, 77, 67, 115>>>>,
      <<<<83, 79, 77, 69>>, <<0, 0, 0, 0, 0, 0, 0, 40>>,
         <<7, 255, 255, 201, 41, 243, 143, 30, 234, 132, 230, 247, 14, 197, 125, 200, 110, 150, 14, 183, 201, 183, 43, 211, 206, 130, 140, 147, 158, 121, 229, 48>>>>,
      <<<<83, 79, 77, 69>>, <<0, 0, 0, 0, 0, 0, 0, 41>>,
         <<68, 243, 159, 16, 1, 35, 132, 217, 97, 105, 198, 0, 171, 253, 159, 213, 205, 158, 72, 14, 200, 75, 107, 59, 57, 242, 19, 4, 113, 14, 82, 183>>>>,
      <<<<83, 79, 77, 69>>, <<0, 0, 0, 0, 0, 0, 0, 42>>,
         <<199, 249, 178, 252, 211, 91, 147, 107, 28, 117, 191, 189, 83, 91, 93, 145, 151, 125, 116, 130, 233, 48, 104, 24, 98, 106, 21, 191, 229, 128, 139, 228>>>>,
      <<<<83, 79, 77, 69>>, <<0, 0, 0, 0, 0, 0, 0, 43>>,
         <<50, 17, 13, 185, 186, 139, 63, 252, 211, 109, 73, 72, 163, 254, 247, 78, 143, 105, 131, 10, 163, 118, 115, 244, 91, 188, 238, 85, 224, 216, 69, 223>>>>,
      <<<<83, 79, 77, 69>>, <<0, 0, 0, 0, 0, 0, 0, 44>>,
         <<81, 206, 96, 227, 206, 104, 212, 64, 228, 110, 217, 49, 134, 79, 175, 229, 229, 89, 74, 15, 162, 237, 30, 130, 195, 153, 41, 150, 85, 99, 28, 234>>>>,
      <<<<83, 79, 77, 69>>, <<0, 0, 0, 0, 0, 0, 0, 45>>,
         <<191, 81, 44, 117, 164, 117, 123, 165, 101, 130, 47, 2, 95, 184, 146, 109, 65, 197, 169, 214, 217, 172, 9, 12, 253, 200, 184, 32, 230, 224, 42, 15>>>>,
      <<<<83, 79, 77, 69>>, <<0, 0, 0, 0, 0, 0, 0, 46>>,
         <<41, 97, 183, 110, 110, 101, 86, 2, 66, 49, 255, 214, 181, 175, 188, 126, 171, 186, 6, 152, 88, 199, 124, 142, 9, 196, 131, 53, 37, 148, 209, 241>>>>,
      <<<<83, 79, 77, 69>>, <<0, 0, 0, 0, 0, 0, 0, 47>>,
         <<128, 153, 226, 170, 77, 245, 92, 109, 146, 51, 238, 70, 227, 138, 74, 167, 147, 93, 62, 27, 104, 132, 34, 88, 188, 214, 248, 20, 135, 41, 236, 85>>>>,
      <<<<83, 79, 77, 69>>, <<0, 0, 0, 0, 0, 0, 0, 48>>,
         <<58, 220, 154, 62, 66, 101, 28, 126, 89, 252, 168, 255, 129, 71, 242, 151, 103, 166, 209, 90, 204, 114, 39, 231, 36, 124, 105, 26, 134, 76, 216, 78>>>>,
      <<<<83, 79, 77, 69>>, <<0, 0, 0, 0, 0, 0, 0, 49>>,
         <<165, 182, 144, 22, 47, 174, 27, 132, 191, 196, 66, 142, 164, 127, 182, 226, 138, 121, 21, 81, 7, 137, 239, 242, 189, 17, 113, 145, 129, 186, 164, 80>>>>,
      <<<<83, 79, 77, 69>>, <<0, 0, 0, 0, 0, 0, 0, 50>>,
         <<154, 43, 233, 106, 85, 239, 254, 136, 15, 232, 53, 154, 10, 118, 74, 5, 45, 156, 112, 82, 80, 20, 137, 211, 157, 115, 64, 215, 208, 252, 214, 44>>>>,
      <<<<83, 79, 77, 69>>, <<0, 0, 0, 0, 0, 0, 0, 51>>,
         <<36, 48, 10, 3, 17, 81, 159, 129, 86, 171, 26, 164, 217, 79, 135, 116, 20, 74, 56, 214, 134, 150, 40, 205, 42, 162, 201, 204, 136, 85, 216, 25>>>>,
      <<<<83, 79, 77, 69>>, <<0, 0, 0, 0, 0, 0, 0, 52>>,
         <<227, 195, 2, 96, 189, 4, 103, 228, 235, 246, 213, 175, 130, 157, 204, 93, 204, 99, 185, 40, 128, 96, 10, 172, 170, 159, 31, 212, 152, 235, 121, 180>>>>,
      <<<<83, 79, 77, 69>>, <<0, 0, 0, 0, 0, 0, 0, 53>>,
         <<189, 200, 75, 110, 169, 227, 79, 196, 98, 71, 30, 255, 221, 74, 252, 203, 252, 89, 184, 219, 11, 228, 58, 158, 73, 193, 194, 4, 17, 170, 182, 149>>>>,
      <<<<83, 79, 77, 69>>, <<0, 0, 0, 0, 0, 0, 0, 54>>,
         <<152, 68, 153, 165, 3, 129, 169, 47, 99, 10, 89, 77, 1, 135, 37, 74, 106, 192, 240, 224, 243, 199, 133, 232, 234, 53, 36, 150, 176, 244, 92, 211>>>>,
      <<<<83, 79, 77, 69>>, <<0, 0, 0, 0, 0, 0, 0, 55>>,
         <<127, 56, 211, 206, 181, 112, 180, 141, 66, 170, 202, 201, 56, 231, 197, 225, 4, 169, 62, 117, 3, 254, 8, 198, 55, 70, 14, 141, 55, 105, 229, 52>>>>,
      <<<<83, 79, 77, 69>>, <<0, 0, 0, 0, 0, 0, 0, 66>>,
         <<176, 84, 198, 97, 107, 133, 233, 189, 39, 128, 255, 204, 221, 151, 113, 232, 108, 229, 117, 126, 19, 184, 38, 191, 99, 152, 203, 227, 215, 34, 11, 68>>>>,
      <<<<83, 79, 77, 69>>, <<0, 0, 0, 0, 0, 1, 226, 64>>,
         <<86, 97, 123, 110, 38, 240, 5, 189, 112, 33, 94, 154, 170, 110, 32, 246, 85, 138, 162, 78, 182, 195, 203, 16, 248, 97, 80, 108, 179, 123, 82, 148>>>>,
      <<<<83, 79, 77, 69>>, <<0, 0, 0, 0, 0, 8, 136, 136>>,
         <<180, 6, 54, 27, 79, 148, 208, 169, 239, 161, 249, 205, 226, 129, 145, 214, 86, 125, 253, 217, 203, 66, 108, 94, 75, 45, 41, 163, 35, 106, 35, 57>>>>,
      <<<<83, 79, 77, 69>>, <<0, 0, 0, 0, 0, 128, 0, 6>>,
         <<1, 63, 242, 190, 8, 11, 65, 179, 210, 171, 10, 12, 226, 145, 29, 133, 76, 32, 170, 226, 175, 86, 121, 178, 90, 119, 145, 140, 211, 208, 173, 109>>>>,
      <<<<83, 79, 77, 69>>, <<0, 0, 0, 0, 0, 232, 186, 58>>,
         <<166, 215, 171, 246, 190, 148, 51, 179, 39, 8, 106, 141, 152, 123, 69, 178, 50, 232, 139, 253, 77, 70, 3, 52, 212, 39, 81, 107, 116, 168, 252, 189>>>>,
      <<<<83, 79, 77, 69>>, <<0, 0, 0, 0, 1, 0, 0, 13>>,
         <<99, 68, 233, 23, 79, 108, 143, 112, 163, 115, 85, 0, 62, 72, 153, 118, 207, 246, 198, 127, 255, 221, 71, 121, 92, 213, 77, 97, 143, 228, 253, 143>>>>,
      <<<<83, 79, 77, 69>>, <<0, 0, 0, 0, 2, 0, 0, 26>>,
         <<4, 160, 72, 202, 80, 113, 90, 233, 163, 242, 130, 241, 133, 159, 186, 117, 221, 56, 212, 49, 170, 19, 8, 25, 231, 49, 218, 143, 245, 148, 145, 140>>>>,
      <<<<83, 79, 77, 69>>, <<128, 0, 0, 0, 0, 0, 0, 0>>,
         <<35, 42, 42, 154, 239, 37, 116, 5, 47, 95, 25, 138, 74, 65, 108, 135, 162, 116, 184, 15, 58, 174, 181, 57, 139, 174, 248, 88, 252, 52, 164, 167>>>>,
      <<<<83, 79, 77, 69>>, <<255, 255, 255, 255, 255, 255, 255, 255>>,
         <<118, 81, 187, 5, 158, 82, 21, 252, 221, 63, 120, 182, 146, 57, 67, 145, 74, 96, 140, 106, 28, 145, 12, 234, 75, 9, 188, 134, 120, 167, 175, 130>>>>,
      <<<<83, 79, 77, 69, 95, 83, 69, 67, 82, 69, 84>>, <<0, 0, 0, 0, 0, 0, 0, 0>>,
         <<220, 173, 154, 91, 245, 164, 186, 90, 188, 91, 70, 98, 22, 240, 145, 190, 31, 82, 59, 221, 201, 114, 205, 26, 205, 166, 205, 21, 163, 213, 31, 130>>>>,
      <<<<83, 79, 77, 69, 95, 83, 69, 67, 82, 69, 84>>, <<0, 0, 0, 0, 0, 0, 0, 1>>,
         <<117, 127, 19, 40, 164, 3, 45, 69, 248, 62, 173, 221, 251, 189, 3, 208, 238, 239, 136, 194, 194, 138, 174, 170, 79, 84, 5, 43, 109, 179, 92, 232>>>>,
      <<<<83, 79, 77, 69, 95, 83, 69, 67, 82, 69, 84>>, <<0, 0, 0, 0, 0, 0, 0, 2>>,
         <<251, 45, 254, 11, 221, 97, 114, 215, 128, 156, 236, 145, 56, 234, 210, 147, 28, 168, 36, 134, 108, 221, 23, 114, 96, 46, 104, 68, 231, 5, 20, 190>>>>,
      <<<<83, 79, 77, 69, 95, 83, 69, 67, 82, 69, 84>>, <<0, 0, 0, 0, 0, 0, 0, 3>>,
         <<48, 251, 77, 245, 96, 201, 75, 169, 133, 237, 91, 173, 99, 58, 117, 15, 28, 224, 170, 155, 201, 101, 220, 179, 171, 209, 229, 64, 110, 83, 151, 61>>>>,
      <<<<83, 79, 77, 69, 95, 83, 69, 67, 82, 69, 84>>, <<0, 0, 0, 0, 0, 0, 0, 4>>,
         <<218, 225, 23, 173, 112, 107, 57, 55, 31, 19, 211, 193, 82, 25, 13, 218, 90, 3, 73, 101, 46, 85, 51, 215, 43, 237, 168, 78, 3, 171, 135, 73>>>>,
      <<<<83, 79, 77, 69, 95, 83, 69, 67, 82, 69, 84>>, <<0, 0, 0, 0, 0, 0, 0, 5>>,
         <<13, 184, 64, 178, 5, 167, 136, 198, 13, 243, 22, 108, 117, 210, 223, 139, 255, 42, 236, 1, 204, 45, 61, 7, 124, 37, 142, 99, 253, 193, 156, 225>>>>,
      <<<<83, 79, 77, 69, 95, 83, 69, 67, 82, 69, 84>>, <<0, 0, 0, 0, 0, 0, 0, 6>>,
         <<194, 152, 110, 56, 46, 78, 46, 105, 137, 77, 29, 149, 195, 160, 189, 104, 24, 211, 154, 225, 152, 205, 20, 118, 143, 36, 17, 163, 141, 143, 145, 172>>>>,
      <<<<83, 79, 77, 69, 95, 83, 69, 67, 82, 69, 84>>, <<0, 0, 0, 0, 0, 0, 0, 7>>,
         <<72, 217, 198, 102, 109, 67, 244, 66, 146, 37, 27, 12, 10, 207, 149, 135, 160, 176, 86, 40, 178, 166, 104, 157, 147, 217, 103, 215, 226, 83, 31, 105>>>>,
      <<<<83, 79, 77, 69, 95, 83, 69, 67, 82, 69, 84>>, <<0, 0, 0, 0, 0, 0, 0, 8>>,
         <<230, 138, 12, 252, 254, 95, 166, 174, 17, 146, 228, 82, 124, 28, 10, 248, 157, 213, 178, 142, 68, 94, 46, 31, 169, 96, 8, 78, 215, 144, 135, 13>>>>,
      <<<<83, 79, 77, 69, 95, 83, 69, 67, 82, 69, 84>>, <<0, 0, 0, 0, 0, 0, 0, 9>>,
         <<89, 25, 144, 154, 68, 52, 211, 171, 69, 154, 230, 101, 26, 244, 41, 17, 187, 224, 208, 134, 13, 102, 32, 162, 100, 50, 127, 74, 197, 144, 79, 127>>>>,
      <<<<83, 79, 77, 69, 95, 83, 69, 67, 82, 69, 84>>, <<0, 0, 0, 0, 0, 0, 0, 10>>,
         <<127, 208, 81, 97, 246, 15, 44, 87, 167, 161, 244, 44, 83, 245, 195, 123, 5, 55, 110, 243, 24, 168, 236, 154, 167, 155, 253, 169, 144, 46, 121, 73>>>>,
      <<<<83, 79, 77, 69, 95, 83, 69, 67, 82, 69, 84>>, <<0, 0, 0, 0, 0, 0, 0, 11>>,
         <<53, 135, 25, 52, 185, 155, 208, 80, 140, 207, 201, 31, 157, 191, 173, 86, 102, 110, 56, 8, 2, 36, 170, 225, 154, 122, 157, 58, 2, 77, 13, 91>>>>,
      <<<<83, 79, 77, 69, 95, 83, 69, 67, 82, 69, 84>>, <<0, 0, 0, 0, 0, 0, 0, 12>>,
         <<245, 31, 231, 128, 173, 197, 231, 244, 251, 186, 106, 142, 5, 133, 189, 148, 95, 2, 68, 172, 247, 170, 111, 222, 74, 38, 142, 30, 158, 13, 156, 30>>>>,
      <<<<83, 79, 77, 69, 95, 83, 69, 67, 82, 69, 84>>, <<0, 0, 0, 0, 0, 0, 0, 13>>,
         <<243, 180, 210, 171, 222, 21, 51, 217, 194, 128, 103, 148, 77, 135, 49, 191, 59, 245, 130, 123, 46, 189, 22, 63, 74, 245, 57, 231, 78, 27, 82, 237>>>>,
      <<<<83, 79, 77, 69, 95, 83, 69, 67, 82, 69, 84>>, <<0, 0, 0, 0, 0, 0, 0, 14>>,
         <<66, 194, 138, 41, 223, 153, 122, 95, 153, 80, 52, 174, 27, 191, 108, 252, 235, 42, 34, 68, 124, 88, 249, 104, 29, 134, 129, 50, 83, 63, 141, 178>>>>,
      <<<<83, 79, 77, 69, 95, 83, 69, 67, 82, 69, 84>>, <<0, 0, 0, 0, 0, 0, 0, 15>>,
         <<72, 105, 49, 207, 74, 179, 179, 14, 27, 140, 245, 158, 172, 107, 254, 203, 49, 232, 7, 68, 89, 36, 151, 216, 18, 23, 2, 159, 170, 77, 48, 231>>>>,
      <<<<83, 79, 77, 69, 95, 83, 69, 67, 82, 69, 84>>, <<0, 0, 0, 0, 0, 0, 0, 16>>,
         <<15, 47, 144, 174, 172, 207, 213, 43, 106, 168, 109, 242, 123, 179, 176, 193, 248, 12, 62, 36, 162, 42, 153, 164, 165, 205, 145, 207, 235, 243, 95, 224>>>>,
      <<<<83, 79, 77, 69, 95, 83, 69, 67, 82, 69, 84>>, <<0, 0, 0, 0, 0, 0, 0, 17>>,
         <<95, 214, 49, 181, 13, 249, 147, 233, 143, 13, 120, 157, 182, 107, 21, 154, 143, 150, 234, 248, 23, 219, 174, 228, 65, 104, 190, 62, 11, 125, 131, 203>>>>,
      <<<<83, 79, 77, 69, 95, 83, 69, 67, 82, 69, 84>>, <<0, 0, 0, 0, 0, 0, 0, 18>>,
         <<123, 56, 187, 157, 25, 185, 189, 152, 180, 50, 75, 199, 170, 142, 17, 27, 255, 254, 126, 168, 223, 157, 49, 97, 246, 213, 196, 30, 127, 14, 76, 253>>>>,
      <<<<83, 79, 77, 69, 95, 83, 69, 67, 82, 69, 84>>, <<0, 0, 0, 0, 0, 0, 0, 19>>,
         <<28, 6, 75, 243, 79, 177, 141, 112, 224, 109, 54, 67, 102, 101, 48, 236, 198, 106, 172, 239, 21, 207, 204, 12, 251, 31, 49, 11, 65, 199, 241, 35>>>>,
      <<<<83, 79, 77, 69, 95, 83, 69, 67, 82, 69, 84>>, <<0, 0, 0, 0, 0, 0, 0, 20>>,
         <<169, 178, 160, 44, 73, 10, 113, 153, 137, 173, 194, 1, 193, 83, 247, 180, 204, 19, 99, 147, 126, 23, 48, 190, 200, 177, 250, 223, 168, 34, 164, 178>>>>,
      <<<<83, 79, 77, 69, 95, 83, 69, 67, 82, 69, 84>>, <<0, 0, 0, 0, 0, 0, 0, 21>>,
         <<210, 143, 86, 208, 183, 192, 58, 169, 5, 37, 116, 224, 117, 226, 133, 9, 159, 86, 60, 114, 74, 54, 24, 58, 34, 26, 85, 166, 178, 103, 174, 123>>>>,
      <<<<83, 79, 77, 69, 95, 83, 69, 67, 82, 69, 84>>, <<0, 0, 0, 0, 0, 0, 0, 22>>,
         <<36, 45, 141, 90, 63, 80, 105, 238, 243, 12, 140, 124, 60, 17, 168, 196, 84, 75, 122, 78, 146, 222, 192, 206, 93, 174, 132, 210, 254, 39, 20, 192>>>>,
      <<<<83, 79, 77, 69, 95, 83, 69, 67, 82, 69, 84>>, <<0, 0, 0, 0, 0, 0, 0, 23>>,
         <<100, 106, 204, 75, 21, 38, 153, 211, 135, 120, 221, 244, 35, 74, 88, 175, 113, 139, 246, 103, 31, 253, 108, 174, 145, 5, 59, 191, 173, 64, 161, 170>>>>,
      <<<<83, 79, 77, 69, 95, 83, 69, 67, 82, 69, 84>>, <<0, 0, 0, 0, 0, 0, 0, 24>>,
         <<191, 11, 203, 243, 78, 171, 230, 194, 147, 67, 9, 94, 96, 211, 36, 22, 96, 211, 186, 11, 131, 66, 31, 6, 148, 179, 81, 39, 157, 6, 118, 247>>>>,
      <<<<83, 79, 77, 69, 95, 83, 69, 67, 82, 69, 84>>, <<0, 0, 0, 0, 0, 0, 0, 25>>,
         <<255, 44, 124, 65, 154, 237, 87, 169, 224, 99, 14, 174, 124, 208, 2, 107, 34, 105, 162, 204, 146, 39, 165, 86, 46, 104, 148, 27, 154, 92, 131, 16>>>>,
      <<<<83, 79, 77, 69, 95, 83, 69, 67, 82, 69, 84>>, <<0, 0, 0, 0, 0, 0, 0, 26>>,
         <<147, 236, 83, 227, 182, 51, 141, 215, 14, 37, 69, 6, 84, 189, 196, 251, 24, 94, 116, 67, 81, 11, 116, 85, 94, 129, 101, 141, 43, 189, 31, 112>>>>,
      <<<<83, 79, 77, 69, 95, 83, 69, 67, 82, 69, 84>>, <<0, 0, 0, 0, 0, 0, 0, 27>>,
         <<62, 216, 240, 218, 115, 50, 114, 177, 20, 202, 66, 12, 27, 232, 74, 206, 100, 51, 146, 126, 241, 140, 89, 71, 189, 177, 36, 136, 81, 47, 94, 55>>>>,
      <<<<83, 79, 77, 69, 95, 83, 69, 67, 82, 69, 84>>, <<0, 0, 0, 0, 0, 0, 0, 28>>,
         <<228, 172, 241, 19, 64, 115, 104, 106, 248, 47, 234, 240, 224, 194, 107, 81, 204, 220, 105, 110, 96, 167, 43, 55, 126, 71, 223, 58, 178, 102, 217, 206>>>>,
      <<<<83, 79, 77, 69, 95, 83, 69, 67, 82, 69, 84>>, <<0, 0, 0, 0, 0, 0, 0, 29>>,
         <<1, 40, 249, 80, 178, 65, 165, 221, 87, 46, 64, 133, 31, 61, 247, 116, 226, 23, 132, 220, 255, 113, 167, 188, 39, 123, 128, 244, 240, 87, 239, 147>>>>,
      <<<<83, 79, 77, 69, 95, 83, 69, 67, 82, 69, 84>>, <<0, 0, 0, 0, 0, 0, 0, 30>>,
         <<182, 234, 95, 46, 151, 43, 54, 182, 62, 228, 127, 82, 20, 66, 133, 228, 89, 79, 20, 56, 29, 178, 2, 236, 180, 141, 15, 38, 72, 93, 43, 31>>>>,
      <<<<83, 79, 77, 69, 95, 83, 69, 67, 82, 69, 84>>, <<0, 0, 0, 0, 0, 0, 0, 31>>,
         <<18, 32, 104, 84, 127, 58, 201, 4, 34, 195, 128, 162, 226, 179, 112, 252, 83, 119, 212, 40, 82, 79, 173, 237, 156, 50, 32, 124, 15, 216, 240, 242>>>>,
      <<<<83, 79, 77, 69, 95, 83, 69, 67, 82, 69, 84>>, <<0, 0, 0, 0, 0, 0, 0, 32>>,
         <<203, 176, 230, 221, 255, 133, 174, 243, 242, 206, 64, 249, 102, 95, 236, 157, 69, 240, 169, 183, 24, 124, 41, 34, 4, 161, 116, 171, 255, 194, 231, 163>>>>,
      <<<<83, 79, 77, 69, 95, 83, 69, 67, 82, 69, 84>>, <<0, 0, 0, 0, 0, 0, 0, 33>>,
         <<34, 102, 238, 195, 136, 203, 127, 79, 251, 240, 170, 38, 201, 6, 178, 41, 125, 243, 251, 226, 129, 149, 87, 105, 72, 178, 215, 200, 198, 50, 168, 179>>>>,
      <<<<83, 79, 77, 69, 95, 83, 69, 67, 82, 69, 84>>, <<0, 0, 0, 0, 0, 0, 0, 34>>,
         <<60, 154, 131, 140, 242, 23, 234, 27, 108, 51, 83, 205, 84, 167, 106, 169, 34, 225, 147, 174, 131, 220, 163, 157, 219, 113, 193, 9, 121, 127, 191, 123>>>>,
      <<<<83, 79, 77, 69, 95, 83, 69, 67, 82, 69, 84>>, <<0, 0, 0, 0, 0, 0, 0, 35>>,
         <<197, 244, 99, 57, 44, 206, 149, 43, 39, 1, 153, 202, 65, 40, 51, 130, 123, 171, 102, 166, 92, 36, 253, 204, 217, 102, 32, 71, 62, 158, 223, 190>>>>,
      <<<<83, 79, 77, 69, 95, 83, 69, 67, 82, 69, 84>>, <<0, 0, 0, 0, 0, 0, 0, 36>>,
         <<130, 55, 23, 35, 171, 45, 58, 39, 149, 121, 129, 189, 135, 231, 72, 12, 76, 66, 28, 94, 194, 234, 207, 253, 189, 166, 57, 227, 207, 167, 112, 201>>>>,
      <<<<83, 79, 77, 69, 95, 83, 69, 67, 82, 69, 84>>, <<0, 0, 0, 0, 0, 0, 0, 37>>,
         <<194, 165, 203, 163, 229, 248, 108, 205, 173, 238, 137, 93, 4, 213, 152, 116, 186, 3, 208, 21, 55, 187, 53, 179, 240, 183, 182, 188, 165, 193, 83, 76>>>>,
      <<<<83, 79, 77, 69, 95, 83, 69, 67, 82, 69, 84>>, <<0, 0, 0, 0, 0, 0, 0, 38>>,
         <<82, 69, 69, 203, 128, 225, 136, 165, 51, 175, 237, 222, 143, 73, 192, 100, 130, 195, 166, 197, 255, 174, 106, 187, 146, 119, 161, 163, 123, 48, 170, 3>>>>,
      <<<<83, 79, 77, 69, 95, 83, 69, 67, 82, 69, 84>>, <<0, 0, 0, 0, 0, 0, 0, 39>>,
         <<65, 202, 12, 18, 154, 15, 121, 210, 51, 170, 39, 157, 83, 1, 202, 102, 16, 183, 45, 78, 175, 208, 127, 47, 148, 122, 163, 152, 240, 182, 192, 64>>>>,
      <<<<83, 79, 77, 69, 95, 83, 69, 67, 82, 69, 84>>, <<0, 0, 0, 0, 0, 0, 0, 40>>,
         <<243, 223, 47, 144, 241, 125, 10, 50, 156, 221, 252, 101, 144, 222, 87, 135, 152, 206, 165, 23, 3, 199, 142, 186, 217, 6, 111, 222, 108, 231, 152, 135>>>>,
      <<<<83, 79, 77, 69, 95, 83, 69, 67, 82, 69, 84>>, <<0, 0, 0, 0, 0, 0, 0, 41>>,
         <<49, 233, 64, 102, 171, 49, 231, 217, 207, 114, 9, 77, 162, 64, 123, 170, 69, 97, 126, 161, 242, 49, 47, 245, 37, 126, 108, 117, 178, 166, 193, 247>>>>,
      <<<<83, 79, 77, 69, 95, 83, 69, 67, 82, 69, 84>>, <<0, 0, 0, 0, 0, 0, 0, 42>>,
         <<156, 141, 56, 102, 0, 17, 238, 188, 232, 245, 52, 229, 152, 227, 255, 233, 48, 38, 191, 146, 68, 117, 0, 200, 163, 45, 193, 206, 253, 238, 100, 255>>>>,
      <<<<83, 79, 77, 69, 95, 83, 69, 67, 82, 69, 84>>, <<0, 0, 0, 0, 0, 0, 0, 43>>,
         <<95, 115, 172, 112, 214, 174, 250, 228, 82, 25, 227, 28, 21, 129, 181, 72, 190, 63, 8, 66, 95, 161, 205, 54, 11, 218, 242, 156, 214, 249, 124, 225>>>>,
      <<<<83, 79, 77, 69, 95, 83, 69, 67, 82, 69, 84>>, <<0, 0, 0, 0, 0, 0, 0, 44>>,
         <<103, 42, 104, 169, 239, 35, 179, 150, 36, 234, 146, 176, 26, 227, 228, 77, 67, 132, 125, 160, 212, 16, 181, 183, 180, 177, 224, 48, 192, 98, 48, 12>>>>,
      <<<<83, 79, 77, 69, 95, 83, 69, 67, 82, 69, 84>>, <<0, 0, 0, 0, 0, 0, 0, 45>>,
         <<46, 170, 75, 8, 238, 40, 116, 111, 119, 16, 116, 19, 236, 127, 114, 111, 76, 192, 190, 15, 4, 54, 162, 120, 183, 190, 181, 60, 59, 91, 234, 13>>>>,
      <<<<83, 79, 77, 69, 95, 83, 69, 67, 82, 69, 84>>, <<0, 0, 0, 0, 0, 0, 0, 46>>,
         <<183, 239, 4, 159, 164, 161, 101, 133, 224, 246, 185, 60, 235, 211, 200, 30, 38, 197, 110, 243, 196, 223, 213, 239, 226, 43, 238, 26, 31, 37, 17, 50>>>>,
      <<<<83, 79, 77, 69, 95, 83, 69, 67, 82, 69, 84>>, <<0, 0, 0, 0, 0, 0, 0, 47>>,
         <<207, 77, 55, 36, 18, 200, 205, 135, 135, 244, 75, 165, 222, 83, 230, 57, 79, 244, 235, 82, 114, 36, 39, 128, 83, 30, 58, 79, 98, 203, 41, 82>>>>,
      <<<<83, 79, 77, 69, 95, 83, 69, 67, 82, 69, 84>>, <<0, 0, 0, 0, 0, 0, 0, 48>>,
         <<157, 63, 179, 159, 78, 215, 0, 250, 116, 1, 200, 245, 0, 201, 97, 35, 17, 50, 13, 138, 249, 102, 247, 31, 73, 43, 203, 27, 145, 226, 245, 145>>>>,
      <<<<83, 79, 77, 69, 95, 83, 69, 67, 82, 69, 84>>, <<0, 0, 0, 0, 0, 0, 0, 49>>,
         <<26, 89, 58, 175, 74, 177, 201, 8, 105, 34, 165, 94, 9, 103, 171, 190, 178, 1, 8, 215, 125, 209, 250, 153, 241, 66, 122, 68, 242, 166, 54, 81>>>>,
      <<<<83, 79, 77, 69, 95, 83, 69, 67, 82, 69, 84>>, <<0, 0, 0, 0, 0, 0, 0, 50>>,
         <<4, 6, 211, 108, 164, 5, 141, 20, 252, 52, 182, 217, 33, 253, 196, 168, 159, 203, 2, 1, 120, 132, 123, 241, 246, 163, 250, 32, 230, 169, 252, 233>>>>,
      <<<<83, 79, 77, 69, 95, 83, 69, 67, 82, 69, 84>>, <<0, 0, 0, 0, 0, 0, 0, 51>>,
         <<125, 168, 8, 106, 172, 87, 203, 214, 132, 145, 213, 233, 218, 86, 225, 69, 15, 189, 80, 214, 62, 94, 201, 181, 214, 151, 73, 174, 232, 68, 27, 178>>>>,
      <<<<83, 79, 77, 69, 95, 83, 69, 67, 82, 69, 84>>, <<0, 0, 0, 0, 0, 0, 0, 52>>,
         <<231, 148, 180, 21, 139, 81, 26, 160, 136, 95, 161, 109, 94, 153, 213, 27, 138, 250, 154, 23, 156, 181, 25, 109, 210, 163, 120, 142, 15, 214, 67, 23>>>>,
      <<<<83, 79, 77, 69, 95, 83, 69, 67, 82, 69, 84>>, <<0, 0, 0, 0, 0, 0, 0, 53>>,
         <<215, 175, 197, 13, 99, 129, 5, 11, 169, 54, 26, 95, 62, 179, 147, 180, 101, 144, 213, 86, 5, 40, 42, 250, 128, 38, 97, 23, 73, 26, 68, 115>>>>,
      <<<<83, 79, 77, 69, 95, 83, 69, 67, 82, 69, 84>>, <<0, 0, 0, 0, 0, 0, 0, 54>>,
         <<97, 86, 223, 205, 241, 87, 217, 218, 26, 64, 102, 60, 6, 55, 159, 102, 208, 9, 224, 243, 207, 108, 124, 183, 242, 205, 118, 111, 52, 149, 234, 236>>>>,
      <<<<83, 79, 77, 69, 95, 83, 69, 67, 82, 69, 84>>, <<0, 0, 0, 0, 0, 0, 0, 55>>,
         <<128, 26, 197, 229, 159, 189, 138, 143, 143, 55, 232, 29, 205, 66, 149, 195, 149, 203, 202, 81, 206, 23, 64, 100, 237, 137, 117, 76, 49, 189, 70, 4>>>>,
      <<<<83, 79, 77, 69, 95, 83, 69, 67, 82, 69, 84>>, <<0, 0, 0, 0, 0, 0, 0, 66>>,
         <<236, 228, 101, 117, 161, 33, 131, 4, 239, 109, 252, 97, 147, 189, 163, 209, 119, 171, 224, 120, 204, 14, 209, 16, 218, 101, 128, 88, 108, 159, 188, 220>>>>,
      <<<<83, 79, 77, 69, 95, 83, 69, 67, 82, 69, 84>>, <<0, 0, 0, 0, 0, 1, 226, 64>>,
         <<192, 134, 85, 21, 16, 70, 145, 234, 113, 175, 44, 7, 33, 95, 14, 153, 66, 165, 178, 93, 190, 190, 232, 103, 8, 167, 252, 253, 200, 106, 161, 131>>>>,
      <<<<83, 79, 77, 69, 95, 83, 69, 67, 82, 69, 84>>, <<0, 0, 0, 0, 0, 8, 136, 136>>,
         <<93, 187, 6, 118, 225, 201, 201, 167, 80, 116, 133, 103, 217, 135, 252, 1, 125, 25, 57, 26, 47, 189, 117, 249, 141, 52, 22, 205, 224, 220, 8, 152>>>>,
      <<<<83, 79, 77, 69, 95, 83, 69, 67, 82, 69, 84>>, <<0, 0, 0, 0, 0, 128, 0, 6>>,
         <<156, 251, 138, 145, 113, 121, 33, 100, 161, 89, 24, 37, 74, 195, 240, 19, 129, 106, 31, 7, 59, 126, 110, 248, 92, 78, 89, 127, 168, 213, 159, 97>>>>,
      <<<<83, 79, 77, 69, 95, 83, 69, 67, 82, 69, 84>>, <<0, 0, 0, 0, 0, 232, 186, 58>>,
         <<67, 124, 4, 64, 22, 126, 2, 17, 31, 110, 182, 241, 200, 55, 171, 254, 30, 12, 19, 166, 188, 5, 153, 178, 232, 250, 147, 245, 128, 15, 248, 45>>>>,
      <<<<83, 79, 77, 69, 95, 83, 69, 67, 82, 69, 84>>, <<0, 0, 0, 0, 1, 0, 0, 13>>,
         <<22, 202, 217, 26, 125, 182, 168, 34, 53, 223, 67, 58, 224, 143, 214, 39, 252, 135, 166, 190, 207, 71, 48, 218, 208, 45, 145, 219, 244, 152, 196, 134>>>>,
      <<<<83, 79, 77, 69, 95, 83, 69, 67, 82, 69, 84>>, <<0, 0, 0, 0, 2, 0, 0, 26>>,
         <<126, 203, 228, 29, 5, 142, 190, 102, 77, 31, 3, 237, 153, 152, 216, 190, 42, 254, 5, 200, 171, 129, 179, 67, 102, 141, 6, 120, 230, 159, 3, 186>>>>,
      <<<<83, 79, 77, 69, 95, 83, 69, 67, 82, 69, 84>>, <<128, 0, 0, 0, 0, 0, 0, 0>>,
         <<53, 197, 40, 170, 127, 253, 181, 34, 74, 200, 47, 150, 229, 191, 155, 107, 14, 132, 236, 213, 208, 62, 168, 157, 108, 150, 151, 99, 193, 209, 18, 136>>>>,
      <<<<83, 79, 77, 69, 95, 83, 69, 67, 82, 69, 84>>, <<255, 255, 255, 255, 255, 255, 255, 255>>,
         <<122, 110, 108, 160, 56, 139, 40, 119, 211, 37, 124, 236, 0, 80, 209, 218, 47, 87, 153, 237, 199, 175, 235, 153, 31, 110, 254, 25, 220, 23, 22, 72>>>> }

\* HMAC-SHA-512(key, 8 big-endian bytes of the counter) as <<key, counter, digest>>
HmacSHA512 ==
    { <<<<>>, <<0, 0, 0, 0, 0, 0, 0, 0>>,
         <<106, 65, 11, 90, 153, 42, 97, 58, 62, 121, 29, 195, 54, 140, 221, 97, 140, 141, 110, 71, 64, 188, 127, 24, 122, 69, 231, 178, 131, 183, 50, 255, 239, 91, 213, 108, 153, 121, 228, 225, 187, 66, 247, 109, 232, 118, 136, 164, 141, 98, 159, 187, 232, 231, 3, 172, 129, 153, 83, 37, 71, 240, 38, 126>>>>,
      <<<<>>, <<0, 0, 0, 0, 0, 0, 0, 1>>,
         <<206, 125, 211, 92, 227, 13, 205, 92, 209, 119, 76, 227, 152, 38, 177, 84, 64, 47, 103, 192, 52, 109, 119, 138, 138, 139, 114, 197, 12, 11, 185, 180, 37, 81, 215, 239, 94, 194, 64, 224, 177, 133, 138, 216, 183, 12, 112, 232, 207, 99, 247, 65, 167, 3, 244, 103, 107, 127, 106, 181, 233, 223, 244, 232>>>>,
      <<<<>>, <<0, 0, 0, 0, 0, 0, 0, 2>>,
         <<174, 153, 92, 221, 217, 6, 255, 55, 49, 103, 160, 225, 59, 196, 43, 227, 113, 206, 12, 164, 249, 181, 56, 210, 7, 199, 142, 127, 41, 238, 83, 182, 90, 99, 72, 33, 42, 96, 13, 143, 68, 170, 139, 173, 43, 231, 33, 71, 12, 74, 206, 53, 252, 214, 210, 15, 118, 205, 20, 113, 139, 145, 217, 88>>>>,
      <<<<>>, <<0, 0, 0, 0, 0, 0, 0, 3>>,
         <<114, 213, 23, 228, 154, 183, 222, 68, 13, 91, 204, 130, 125, 254, 161, 178, 13, 46, 39, 113, 80, 110, 136, 150, 227, 85, 154, 98, 159, 84, 131, 214, 144, 125, 186, 136, 134, 252, 204, 223, 32, 28, 77, 200, 163, 0, 148, 198, 138, 99, 22, 188, 207, 52, 12, 187, 242, 159, 189, 234, 84, 13, 156, 117>>>>,
      <<<<>>, <<0, 0, 0, 0, 0, 0, 0, 4>>,
         <<0, 203, 12, 135, 72, 49, 141, 39, 234, 182, 81, 89, 162, 38, 28, 2, 141, 118, 76, 17, 84, 252, 48, 43, 155, 4, 106, 162, 187, 239, 171, 39, 125, 114, 153, 242, 166, 129, 38, 115, 70, 88, 150, 103, 54, 12, 210, 199, 136, 3, 200, 3, 143, 90, 102, 78, 165, 107, 80, 65, 216, 118, 137, 244>>>>,
      <<<<>>, <<0, 0, 0, 0, 0, 0, 0, 6>>,
         <<120, 73, 186, 113, 139, 126, 214, 197, 13, 194, 203, 238, 218, 191, 64, 39, 185, 245, 18, 233, 92, 92, 14, 141, 59, 93, 212, 194, 63, 53, 155, 167, 185, 137, 111, 84, 54, 102, 93, 79, 60, 3, 9, 181, 86, 160, 215, 144, 76, 181, 12, 11, 238, 77, 146, 23, 109, 72, 150, 121, 49, 198, 94, 154>>>>,
      <<<<>>, <<0, 0, 0, 0, 0, 0, 0, 16>>,
         <<184, 211, 245, 167, 246, 231, 233, 21, 0, 166, 23, 206, 209, 42, 54, 181, 76, 40, 207, 26, 45, 151, 236, 16, 10, 166, 48, 24, 194, 181, 83, 140, 110, 219, 218, 41, 220, 148, 190, 59, 112, 68, 155, 160, 240, 244, 187, 146, 135, 181, 203, 94, 88, 230, 65, 85, 43, 101, 229, 12, 210, 37, 137, 87>>>>,
      <<<<>>, <<0, 0, 0, 0, 0, 0, 0, 29>>,
         <<221, 174, 106, 189, 168, 54, 193, 213, 15, 238, 103, 85, 15, 3, 207, 225, 92, 218, 79, 114, 111, 185, 121, 227, 254, 216, 44, 57, 37, 110, 147, 88, 47, 181, 74, 109, 101, 57, 115, 184, 68, 192, 205, 4, 188, 241, 15, 36, 158, 14, 176, 201, 119, 149, 2, 202, 120, 160, 32, 194, 163, 37, 29, 153>>>>,
      <<<<>>, <<0, 0, 0, 0, 0, 0, 0, 33>>,
         <<212, 183, 77, 111, 84, 227, 19, 221, 166, 13, 48, 217, 114, 138, 115, 120, 27, 32, 23, 201, 143, 42, 6, 224, 179, 44, 42, 75, 153, 162, 155, 156, 37, 213, 226, 136, 40, 97, 48, 138, 149, 195, 95, 136, 48, 57, 127, 56, 162, 195, 78, 45, 203, 57, 132, 2, 208, 124, 107, 57, 123, 97, 74, 228>>>>,
      <<<<>>, <<0, 0, 0, 0, 0, 0, 0, 66>>,
         <<138, 68, 223, 54, 73, 90, 46, 237, 132, 127, 179, 57, 78, 213, 31, 174, 10, 224, 86, 5, 91, 104, 190, 45, 6, 141, 40, 82, 220, 201, 192, 110, 169, 177, 159, 157, 245, 179, 95, 11, 53, 184, 204, 145, 97, 55, 60, 138, 55, 101, 159, 168, 156, 188, 222, 11, 37, 3, 58, 189, 182, 21, 253, 146>>>>,
      <<<<>>, <<0, 0, 0, 0, 0, 8, 136, 136>>,
         <<8, 157, 127, 99, 214, 242, 173, 252, 28, 242, 73, 239, 194, 61, 67, 90, 189, 65, 100, 102, 97, 82, 121, 166, 217, 159, 31, 200, 80, 238, 176, 11, 135, 237, 165, 42, 189, 76, 96, 29, 42, 207, 159, 186, 98, 215, 165, 58, 102, 82, 56, 21, 139, 76, 128, 201, 71, 43, 90, 1, 196, 105, 233, 118>>>>,
      <<<<>>, <<0, 0, 0, 0, 0, 128, 0, 6>>,
         <<55, 64, 49, 48, 171, 22, 104, 8, 15, 92, 176, 64, 165, 28, 101, 48, 117, 231, 167, 40, 235, 253, 167, 105, 104, 205, 215, 161, 197, 128, 245, 149, 202, 204, 153, 131, 66, 139, 67, 97, 255, 163, 130, 219, 146, 42, 216, 153, 16, 223, 150, 71, 191, 211, 249, 38, 64, 149, 132, 162, 72, 221, 20, 26>>>>,
      <<<<>>, <<0, 0, 0, 0, 0, 232, 186, 58>>,
         <<93, 177, 6, 238, 0, 12, 216, 144, 84, 144, 41, 242, 86, 149, 108, 132, 219, 221, 140, 36, 252, 240, 138, 147, 61, 206, 229, 121, 28, 88, 63, 251, 21, 248, 160, 20, 0, 55, 10, 180, 49, 160, 92, 107, 135, 44, 147, 236, 4, 79, 28, 217, 200, 200, 47, 13, 122, 17, 128, 90, 21, 248, 208, 157>>>>,
      <<<<>>, <<0, 0, 0, 0, 1, 0, 0, 13>>,
         <<173, 243, 92, 52, 91, 181, 220, 52, 64, 42, 252, 105, 90, 159, 176, 124, 221, 155, 226, 198, 250, 133, 204, 9, 171, 138, 100, 131, 244, 207, 29, 202, 166, 43, 167, 195, 179, 235, 91, 36, 147, 29, 218, 164, 217, 26, 224, 47, 28, 112, 244, 252, 150, 187, 232, 81, 8, 84, 35, 246, 73, 62, 205, 125>>>>,
      <<<<>>, <<0, 0, 0, 0, 2, 0, 0, 26>>,
         <<210, 107, 218, 207, 27, 223, 182, 35, 75, 15, 155, 2, 124, 9, 102, 33, 213, 59, 72, 250, 192, 135, 96, 85, 93, 141, 99, 41, 195, 212, 141, 202, 48, 245, 22, 134, 189, 208, 186, 4, 178, 102, 113, 114, 72, 16, 219, 141, 71, 101, 155, 126, 145, 198, 57, 139, 73, 141, 252, 185, 240, 230, 177, 233>>>>,
      <<<<>>, <<128, 0, 0, 0, 0, 0, 0, 0>>,
         <<237, 220, 209, 122, 119, 214, 122, 3, 211, 235, 191, 211, 16, 56, 125, 153, 37, 165, 240, 140, 230, 53, 125, 107, 232, 153, 49, 165, 233, 44, 11, 204, 34, 51, 6, 19, 76, 131, 91, 128, 247, 102, 113, 235, 162, 137, 249, 124, 249, 200, 210, 214, 46, 183, 176, 149, 214, 75, 160, 39, 228, 108, 158, 51>>>>,
      <<<<>>, <<255, 255, 255, 255, 255, 255, 255, 255>>,
         <<38, 52, 163, 23, 169, 117, 71, 162, 125, 217, 29, 135, 19, 153, 188, 139, 180, 192, 75, 170, 27, 29, 239, 220, 27, 213, 153, 33, 86, 14, 158, 75, 75, 216, 35, 164, 71, 189, 213, 219, 112, 187, 5, 71, 139, 33, 177, 115, 2, 204, 120, 45, 112, 190, 219, 83, 233, 85, 234, 203, 95, 121, 246, 32>>>>,
      <<<<49, 50, 51, 52, 53, 54, 55, 56, 57, 48, 49, 50, 51, 52, 53, 54, 55, 56, 57, 48>>, <<0, 0, 0, 0, 0, 0, 0, 0>>,
         <<197, 164, 2, 55, 237, 107, 184, 173, 39, 248, 56, 245, 8, 53, 150, 53, 230, 62, 4, 190, 210, 41, 216, 71, 209, 99, 38, 145, 182, 74, 142, 219, 56, 229, 152, 129, 126, 60, 158, 96, 128, 177, 112, 156, 110, 148, 57, 11, 186, 179, 18, 11, 204, 250, 155, 213, 36, 8, 42, 239, 152, 210, 74, 193>>>>,
      <<<<49, 50, 51, 52, 53, 54, 55, 56, 57, 48, 49, 50, 51, 52, 53, 54, 55, 56, 57, 48>>, <<0, 0, 0, 0, 0, 0, 0, 1>>,
         <<104, 160, 217, 252, 127, 107, 200, 227, 6, 10, 76, 167, 153, 150, 3, 182, 195, 93, 74, 247, 178, 158, 24, 197, 79, 79, 145, 140, 36, 64, 180, 123, 109, 142, 43, 43, 70, 223, 37, 241, 36, 48, 104, 169, 38, 45, 129, 200, 135, 158, 7, 213, 73, 145, 165, 236, 120, 61, 183, 56, 75, 11, 145, 13>>>>,
      <<<<49, 50, 51, 52, 53, 54, 55, 56, 57, 48, 49, 50, 51, 52, 53, 54, 55, 56, 57, 48>>, <<0, 0, 0, 0, 0, 0, 0, 2>>,
         <<220, 247, 168, 9, 201, 182, 159, 157, 153, 206, 56, 196, 147, 169, 255, 94, 158, 138, 140, 90, 36, 98, 59, 179, 131, 133, 42, 199, 84, 162, 197, 2, 56, 49, 107, 222, 152, 226, 4, 88, 63, 250, 30, 240, 53, 217, 121, 38, 20, 230, 181, 59, 88, 121, 140, 187, 84, 249, 50, 164, 125, 32, 76, 66>>>>,
      <<<<49, 50, 51, 52, 53, 54, 55, 56, 57, 48, 49, 50, 51, 52, 53, 54, 55, 56, 57, 48>>, <<0, 0, 0, 0, 0, 0, 0, 3>>,
         <<122, 124, 72, 207, 37, 19, 162, 51, 43, 38, 52, 172, 110, 49, 210, 244, 154, 200, 253, 48, 18, 227, 106, 247, 207, 211, 84, 46, 193, 216, 7, 194, 236, 247, 124, 138, 255, 41, 3, 67, 60, 176, 40, 1, 243, 165, 191, 194, 119, 8, 245, 95, 89, 81, 68, 37, 0, 136, 3, 77, 38, 158, 31, 198>>>>,
      <<<<49, 50, 51, 52, 53, 54, 55, 56, 57, 48, 49, 50, 51, 52, 53, 54, 55, 56, 57, 48>>, <<0, 0, 0, 0, 0, 0, 0, 4>>,
         <<158, 241, 49, 16, 73, 108, 225, 46, 222, 74, 115, 102, 204, 157, 129, 244, 77, 232, 201, 144, 219, 126, 29, 71, 182, 247, 71, 101, 182, 157, 198, 60, 205, 93, 134, 113, 152, 24, 179, 238, 231, 142, 104, 99, 242, 113, 81, 41, 134, 29, 91, 244, 5, 138, 92, 145, 225, 220, 89, 114, 61, 147, 108, 152>>>>,
      <<<<49, 50, 51, 52, 53, 54, 55, 56, 57, 48, 49, 50, 51, 52, 53, 54, 55, 56, 57, 48>>, <<0, 0, 0, 0, 0, 0, 0, 5>>,
         <<108, 119, 179, 13, 186, 29, 115, 218, 105, 68, 201, 196, 95, 27, 66, 65, 166, 86, 135, 19, 10, 133, 208, 166, 48, 101, 149, 2, 92, 113, 180, 193, 221, 247, 205, 37, 249, 33, 149, 182, 82, 1, 240, 169, 104, 124, 143, 122, 219, 78, 30, 183, 27, 143, 193, 238, 158, 161, 39, 181, 157, 198, 157, 183>>>>,
      <<<<49, 50, 51, 52, 53, 54, 55, 56, 57, 48, 49, 50, 51, 52, 53, 54, 55, 56, 57, 48>>, <<0, 0, 0, 0, 0, 0, 0, 6>>,
         <<229, 217, 226, 36, 49, 216, 106, 184, 3, 99, 183, 187, 81, 191, 60, 99, 180, 129, 200, 3, 50, 225, 48, 50, 108, 152, 93, 132, 189, 74, 160, 207, 122, 16, 232, 130, 115, 240, 155, 60, 251, 151, 125, 77, 244, 166, 107, 115, 26, 219, 69, 255, 62, 97, 226, 232, 46, 223, 18, 213, 55, 37, 123, 244>>>>,
      <<<<49, 50, 51, 52, 53, 54, 55, 56, 57, 48, 49, 50, 51, 52, 53, 54, 55, 56, 57, 48>>, <<0, 0, 0, 0, 0, 0, 0, 7>>,
         <<93, 42, 233, 38, 7, 72, 222, 75, 43, 107, 80, 163, 94, 205, 129, 88, 171, 199, 148, 66, 45, 181, 123, 228, 89, 129, 174, 141, 182, 21, 101, 242, 201, 77, 76, 142, 195, 208, 230, 244, 179, 120, 35, 210, 38, 230, 251, 161, 221, 64, 136, 159, 157, 167, 80, 111, 200, 62, 240, 149, 122, 182, 37, 222>>>>,
      <<<<49, 50, 51, 52, 53, 54, 55, 56, 57, 48, 49, 50, 51, 52, 53, 54, 55, 56, 57, 48>>, <<0, 0, 0, 0, 0, 0, 0, 8>>,
         <<149, 14, 155, 1, 39, 227, 155, 31, 38, 47, 255, 0, 255, 130, 25, 155, 167, 48, 121, 86, 50, 8, 206, 234, 192, 219, 206, 89, 26, 14, 129, 136, 53, 53, 141, 4, 68, 206, 83, 145, 191, 163, 159, 60, 122, 153, 174, 98, 8, 119, 230, 115, 94, 37, 112, 55, 29, 6, 96, 227, 148, 194, 94, 49>>>>,
      <<<<49, 50, 51, 52, 53, 54, 55, 56, 57, 48, 49, 50, 51, 52, 53, 54, 55, 56, 57, 48>>, <<0, 0, 0, 0, 0, 0, 0, 9>>,
         <<66, 113, 103, 32, 69, 245, 87, 227, 61, 222, 222, 213, 189, 156, 37, 145, 154, 139, 196, 13, 176, 112, 66, 226, 162, 199, 172, 185, 17, 168, 223, 173, 185, 96, 120, 47, 34, 190, 120, 115, 97, 194, 60, 1, 95, 244, 0, 152, 71, 159, 113, 1, 207, 227, 148, 96, 249, 32, 70, 175, 121, 73, 61, 60>>>>,
      <<<<49, 50, 51, 52, 53, 54, 55, 56, 57, 48, 49, 50, 51, 52, 53, 54, 55, 56, 57, 48>>, <<0, 0, 0, 0, 0, 0, 0, 10>>,
         <<238, 168, 136, 64, 85, 163, 123, 133, 166, 103, 27, 235, 249, 57, 148, 192, 14, 8, 105, 3, 117, 83, 239, 68, 104, 34, 85, 4, 242, 156, 252, 219, 131, 31, 43, 127, 129, 179, 222, 177, 71, 138, 72, 186, 137, 99, 113, 131, 202, 137, 2, 58, 131, 152, 69, 21, 18, 55, 28, 83, 255, 245, 121, 145>>>>,
      <<<<49, 50, 51, 52, 53, 54, 55, 56, 57, 48, 49, 50, 51, 52, 53, 54, 55, 56, 57, 48>>, <<0, 0, 0, 0, 0, 0, 0, 11>>,
         <<206, 236, 182, 227, 16, 65, 30, 121, 203, 53, 35, 207, 21, 73, 125, 80, 83, 188, 2, 233, 125, 17, 29, 3, 154, 168, 162, 3, 205, 45, 63, 199, 136, 197, 240, 12, 50, 180, 152, 79, 168, 217, 110, 216, 147, 169, 88, 200, 17, 218, 33, 3, 200, 117, 249, 100, 27, 29, 75, 111, 70, 233, 217, 125>>>>,
      <<<<49, 50, 51, 52, 53, 54, 55, 56, 57, 48, 49, 50, 51, 52, 53, 54, 55, 56, 57, 48>>, <<0, 0, 0, 0, 0, 0, 0, 12>>,
         <<3, 178, 242, 182, 52, 52, 116, 6, 47, 27, 192, 80, 76, 230, 23, 71, 211, 60, 182, 81, 208, 68, 219, 87, 163, 96, 61, 250, 131, 44, 232, 8, 41, 133, 233, 223, 4, 26, 16, 230, 25, 202, 59, 191, 43, 125, 120, 67, 156, 29, 51, 148, 245, 224, 48, 189, 236, 188, 106, 1, 216, 203, 172, 23>>>>,
      <<<<49, 50, 51, 52, 53, 54, 55, 56, 57, 48, 49, 50, 51, 52, 53, 54, 55, 56, 57, 48>>, <<0, 0, 0, 0, 0, 0, 0, 13>>,
         <<38, 194, 70, 44, 48, 118, 139, 214, 231, 98, 223, 181, 239, 137, 194, 95, 167, 66, 7, 173, 216, 206, 132, 154, 60, 51, 83, 144, 155, 186, 6, 90, 72, 117, 128, 9, 52, 28, 124, 83, 35, 116, 86, 20, 48, 11, 37, 210, 187, 131, 156, 166, 70, 109, 170, 134, 226, 185, 119, 146, 128, 120, 119, 16>>>>,
      <<<<49, 50, 51, 52, 53, 54, 55, 56, 57, 48, 49, 50, 51, 52, 53, 54, 55, 56, 57, 48>>, <<0, 0, 0, 0, 0, 0, 0, 14>>,
         <<160, 104, 50, 222, 37, 244, 57, 186, 168, 202, 120, 3, 2, 140, 150, 12, 62, 88, 135, 46, 197, 92, 190, 72, 13, 189, 55, 70, 235, 11, 225, 84, 87, 130, 218, 177, 112, 35, 145, 60, 165, 111, 141, 16, 253, 116, 80, 178, 22, 228, 86, 70, 210, 212, 194, 161, 76, 242, 168, 119, 247, 138, 221, 107>>>>,
      <<<<49, 50, 51, 52, 53, 54, 55, 56, 57, 48, 49, 50, 51, 52, 53, 54, 55, 56, 57, 48>>, <<0, 0, 0, 0, 0, 0, 0, 15>>,
         <<99, 239, 52, 167, 103, 157, 171, 160, 253, 199, 205, 49, 68, 43, 240, 79, 64, 87, 197, 104, 226, 254, 160, 83, 209, 90, 231, 169, 255, 149, 171, 90, 91, 88, 59, 39, 166, 85, 141, 225, 83, 237, 33, 0, 169, 235, 43, 45, 58, 115, 254, 178, 111, 194, 129, 38, 218, 48, 150, 91, 160, 10, 69, 49>>>>,
      <<<<49, 50, 51, 52, 53, 54, 55, 56, 57, 48, 49, 50, 51, 52, 53, 54, 55, 56, 57, 48>>, <<0, 0, 0, 0, 0, 0, 0, 16>>,
         <<240, 237, 30, 62, 123, 71, 113, 162, 118, 217, 59, 223, 53, 108, 243, 238, 82, 50, 142, 102, 155, 6, 60, 92, 223, 30, 157, 77, 235, 227, 79, 34, 112, 210, 147, 242, 144, 164, 113, 217, 132, 156, 77, 125, 241, 233, 178, 180, 119, 227, 214, 156, 167, 100, 161, 132, 144, 217, 10, 147, 42, 219, 84, 128>>>>,
      <<<<49, 50, 51, 52, 53, 54, 55, 56, 57, 48, 49, 50, 51, 52, 53, 54, 55, 56, 57, 48>>, <<0, 0, 0, 0, 0, 0, 0, 17>>,
         <<136, 241, 103, 216, 244, 106, 96, 113, 123, 252, 200, 82, 137, 161, 132, 90, 65, 220, 225, 129, 134, 84, 135, 232, 46, 192, 233, 11, 121, 136, 215, 254, 188, 8, 22, 114, 132, 10, 12, 155, 119, 145, 184, 185, 61, 5, 64, 214, 13, 151, 183, 10, 105, 127, 42, 28, 173, 101, 43, 200, 147, 199, 181, 114>>>>,
      <<<<49, 50, 51, 52, 53, 54, 55, 56, 57, 48, 49, 50, 51, 52, 53, 54, 55, 56, 57, 48>>, <<0, 0, 0, 0, 0, 0, 0, 18>>,
         <<143, 10, 248, 31, 25, 35, 38, 67, 56, 187, 126, 142, 51, 49, 56, 0, 29, 196, 26, 24, 118, 100, 55, 80, 108, 158, 33, 30, 76, 115, 53, 182, 139, 179, 47, 60, 93, 105, 245, 180, 236, 87, 59, 99, 136, 96, 77, 202, 234, 255, 37, 240, 28, 198, 39, 87, 96, 84, 42, 47, 239, 231, 108, 68>>>>,
      <<<<49, 50, 51, 52, 53, 54, 55, 56, 57, 48, 49, 50, 51, 52, 53, 54, 55, 56, 57, 48>>, <<0, 0, 0, 0, 0, 0, 0, 19>>,
         <<211, 177, 78, 4, 168, 145, 56, 8, 30, 245, 34, 183, 70, 138, 24, 137, 206, 174, 186, 139, 104, 208, 86, 80, 133, 90, 146, 46, 245, 76, 79, 77, 43, 249, 143, 243, 39, 191, 25, 13, 5, 175, 134, 121, 87, 109, 226, 220, 210, 104, 137, 70, 108, 86, 4, 73, 216, 253, 135, 32, 140, 141, 110, 100>>>>,
      <<<<49, 50, 51, 52, 53, 54, 55, 56, 57, 48, 49, 50, 51, 52, 53, 54, 55, 56, 57, 48>>, <<0, 0, 0, 0, 0, 0, 0, 20>>,
         <<80, 18, 36, 68, 100, 207, 97, 29, 118, 69, 210, 21, 225, 247, 217, 67, 24, 189, 28, 87, 67, 123, 103, 50, 59, 108, 150, 66, 207, 137, 223, 244, 246, 235, 71, 182, 17, 25, 143, 63, 118, 255, 217, 141, 149, 26, 61, 59, 27, 223, 100, 115, 190, 194, 25, 31, 33, 172, 166, 222, 116, 117, 208, 124>>>>,
      <<<<49, 50, 51, 52, 53, 54, 55, 56, 57, 48, 49, 50, 51, 52, 53, 54, 55, 56, 57, 48>>, <<0, 0, 0, 0, 0, 0, 0, 21>>,
         <<89, 172, 120, 215, 86, 168, 243, 175, 178, 41, 214, 53, 163, 115, 110, 156, 82, 242, 131, 66, 60, 210, 198, 202, 17, 252, 56, 172, 117, 74, 213, 198, 22, 190, 86, 239, 45, 140, 125, 163, 124, 216, 41, 242, 125, 52, 17, 177, 46, 15, 232, 133, 14, 164, 102, 233, 162, 224, 188, 52, 16, 232, 51, 23>>>>,
      <<<<49, 50, 51, 52, 53, 54, 55, 56, 57, 48, 49, 50, 51, 52, 53, 54, 55, 56, 57, 48>>, <<0, 0, 0, 0, 0, 0, 0, 22>>,
         <<119, 205, 48, 216, 129, 96, 244, 165, 129, 224, 117, 61, 138, 83, 10, 63, 100, 126, 214, 189, 150, 37, 234, 175, 181, 80, 109, 209, 146, 217, 131, 59, 15, 13, 233, 54, 168, 194, 250, 27, 24, 63, 140, 134, 208, 190, 61, 122, 66, 145, 53, 254, 100, 218, 230, 182, 22, 34, 171, 16, 161, 140, 204, 36>>>>,
      <<<<49, 50, 51, 52, 53, 54, 55, 56, 57, 48, 49, 50, 51, 52, 53, 54, 55, 56, 57, 48>>, <<0, 0, 0, 0, 0, 0, 0, 23>>,
         <<214, 221, 216, 180, 143, 142, 14, 217, 195, 147, 48, 59, 128, 94, 202, 2, 146, 118, 54, 185, 14, 26, 183, 237, 118, 145, 83, 102, 204, 98, 177, 238, 43, 214, 225, 117, 187, 214, 86, 98, 237, 230, 174, 109, 95, 140, 102, 147, 64, 14, 112, 111, 123, 204, 144, 253, 124, 145, 170, 127, 4, 24, 107, 74>>>>,
      <<<<49, 50, 51, 52, 53, 54, 55, 56, 57, 48, 49, 50, 51, 52, 53, 54, 55, 56, 57, 48>>, <<0, 0, 0, 0, 0, 0, 0, 24>>,
         <<65, 67, 96, 22, 160, 92, 164, 16, 238, 21, 209, 193, 197, 58, 196, 101, 43, 94, 238, 97, 223, 186, 25, 103, 16, 174, 230, 155, 98, 71, 172, 163, 13, 237, 108, 114, 243, 88, 240, 140, 150, 107, 71, 72, 165, 202, 136, 60, 60, 4, 236, 145, 154, 172, 52, 250, 92, 192, 30, 214, 209, 77, 3, 137>>>>,
      <<<<49, 50, 51, 52, 53, 54, 55, 56, 57, 48, 49, 50, 51, 52, 53, 54, 55, 56, 57, 48>>, <<0, 0, 0, 0, 0, 0, 0, 25>>,
         <<111, 126, 221, 11, 13, 188, 224, 241, 56, 10, 126, 142, 94, 166, 236, 148, 106, 183, 82, 33, 71, 72, 184, 224, 0, 147, 39, 78, 56, 100, 207, 166, 7, 155, 89, 253, 64, 72, 7, 53, 18, 69, 19, 172, 153, 73, 193, 219, 4, 150, 96, 131, 101, 248, 230, 36, 157, 198, 167, 168, 189, 120, 177, 216>>>>,
      <<<<49, 50, 51, 52, 53, 54, 55, 56, 57, 48, 49, 50, 51, 52, 53, 54, 55, 56, 57, 48>>, <<0, 0, 0, 0, 0, 0, 0, 26>>,
         <<84, 239, 246, 136, 245, 168, 73, 38, 200, 96, 132, 196, 175, 112, 221, 131, 154, 20, 114, 40, 76, 79, 174, 36, 230, 26, 197, 94, 57, 33, 155, 252, 142, 86, 145, 252, 173, 111, 111, 95, 99, 154, 168, 100, 204, 70, 28, 200, 241, 89, 220, 179, 230, 153, 148, 141, 212, 142, 171, 224, 108, 137, 37, 150>>>>,
      <<<<49, 50, 51, 52, 53, 54, 55, 56, 57, 48, 49, 50, 51, 52, 53, 54, 55, 56, 57, 48>>, <<0, 0, 0, 0, 0, 0, 0, 27>>,
         <<44, 51, 31, 76, 243, 152, 61, 173, 180, 9, 132, 194, 142, 242, 82, 232, 251, 178, 221, 147, 254, 240, 34, 193, 200, 66, 253, 26, 249, 47, 39, 203, 116, 47, 95, 206, 190, 15, 69, 130, 64, 203, 203, 167, 236, 37, 221, 70, 250, 137, 122, 38, 35, 93, 217, 156, 54, 102, 252, 137, 186, 157, 40, 50>>>>,
      <<<<49, 50, 51, 52, 53, 54, 55, 56, 57, 48, 49, 50, 51, 52, 53, 54, 55, 56, 57, 48>>, <<0, 0, 0, 0, 0, 0, 0, 28>>,
         <<124, 163, 148, 200, 233, 246, 12, 34, 246, 152, 35, 150, 171, 77, 208, 239, 170, 65, 35, 9, 161, 234, 41, 148, 34, 237, 163, 57, 115, 235, 237, 179, 57, 185, 253, 148, 4, 211, 207, 165, 189, 194, 184, 70, 100, 122, 220, 180, 228, 245, 187, 210, 181, 33, 71, 30, 220, 21, 95, 243, 198, 59, 194, 249>>>>,
      <<<<49, 50, 51, 52, 53, 54, 55, 56, 57, 48, 49, 50, 51, 52, 53, 54, 55, 56, 57, 48>>, <<0, 0, 0, 0, 0, 0, 0, 29>>,
         <<103, 155, 17, 175, 57, 168, 241, 251, 107, 136, 208, 230, 38, 181, 175, 198, 114, 35, 197, 228, 242, 133, 178, 19, 6, 137, 62, 247, 152, 149, 60, 174, 11, 254, 58, 157, 140, 71, 247, 169, 8, 132, 47, 208, 182, 53, 27, 13, 239, 209, 35, 133, 210, 40, 197, 238, 109, 192, 45, 227, 195, 160, 78, 13>>>>,
      <<<<49, 50, 51, 52, 53, 54, 55, 56, 57, 48, 49, 50, 51, 52, 53, 54, 55, 56, 57, 48>>, <<0, 0, 0, 0, 0, 0, 0, 30>>,
         <<143, 16, 116, 35, 67, 3, 133, 22, 128, 10, 16, 234, 3, 32, 78, 239, 85, 131, 41, 40, 100, 150, 218, 131, 155, 9, 249, 251, 137, 217, 248, 67, 114, 12, 149, 14, 6, 228, 42, 237, 164, 157, 19, 55, 212, 254, 116, 68, 103, 245, 38, 244, 245, 33, 242, 214, 198, 94, 80, 97, 80, 53, 38, 159>>>>,
      <<<<49, 50, 51, 52, 53, 54, 55, 56, 57, 48, 49, 50, 51, 52, 53, 54, 55, 56, 57, 48>>, <<0, 0, 0, 0, 0, 0, 0, 31>>,
         <<11, 242, 66, 211, 108, 133, 223, 231, 158, 49, 90, 49, 95, 209, 35, 171, 218, 165, 125, 206, 216, 41, 181, 28, 64, 255, 233, 85, 127, 178, 23, 204, 210, 246, 91, 76, 226, 228, 6, 126, 81, 175, 54, 144, 173, 81, 47, 24, 101, 60, 193, 241, 251, 248, 243, 136, 187, 154, 21, 140, 83, 245, 199, 4>>>>,
      <<<<49, 50, 51, 52, 53, 54, 55, 56, 57, 48, 49, 50, 51, 52, 53, 54, 55, 56, 57, 48>>, <<0, 0, 0, 0, 0, 0, 0, 32>>,
         <<44, 94, 88, 8, 48, 8, 122, 153, 229, 115, 244, 102, 57, 60, 9, 247, 169, 191, 103, 15, 11, 202, 77, 0, 108, 22, 13, 101, 233, 43, 129, 70, 210, 209, 213, 58, 43, 83, 206, 38, 182, 167, 103, 213, 213, 248, 75, 228, 74, 229, 136, 5, 81, 200, 196, 148, 13, 125, 250, 34, 223, 116, 55, 157>>>>,
      <<<<49, 50, 51, 52, 53, 54, 55, 56, 57, 48, 49, 50, 51, 52, 53, 54, 55, 56, 57, 48>>, <<0, 0, 0, 0, 0, 0, 0, 33>>,
         <<154, 63, 125, 26, 59, 146, 15, 171, 223, 36, 149, 60, 107, 212, 138, 236, 235, 94, 190, 212, 180, 34, 9, 176, 176, 78, 185, 11, 206, 131, 213, 252, 81, 51, 238, 61, 157, 126, 183, 153, 209, 143, 22, 134, 70, 43, 122, 127, 5, 45, 175, 104, 155, 9, 16, 104, 246, 237, 100, 213, 146, 254, 177, 119>>>>,
      <<<<49, 50, 51, 52, 53, 54, 55, 56, 57, 48, 49, 50, 51, 52, 53, 54, 55, 56, 57, 48>>, <<0, 0, 0, 0, 0, 0, 0, 34>>,
         <<251, 221, 214, 225, 73, 20, 131, 50, 244, 15, 87, 67, 187, 234, 164, 136, 97, 235, 78, 229, 120, 155, 254, 240, 132, 151, 226, 62, 239, 126, 171, 19, 235, 26, 71, 200, 125, 87, 128, 215, 123, 70, 18, 90, 232, 54, 202, 241, 226, 109, 121, 186, 160, 81, 216, 38, 37, 106, 127, 184, 121, 118, 246, 54>>>>,
      <<<<49, 50, 51, 52, 53, 54, 55, 56, 57, 48, 49, 50, 51, 52, 53, 54, 55, 56, 57, 48>>, <<0, 0, 0, 0, 0, 0, 0, 35>>,
         <<150, 196, 173, 125, 101, 112, 203, 107, 161, 113, 2, 168, 14, 120, 98, 195, 65, 58, 2, 221, 61, 137, 109, 214, 29, 225, 83, 82, 82, 98, 170, 95, 208, 78, 231, 198, 29, 161, 137, 180, 11, 79, 67, 93, 70, 130, 37, 104, 72, 105, 93, 223, 80, 247, 108, 169, 206, 117, 205, 234, 41, 223, 189, 13>>>>,
      <<<<49, 50, 51, 52, 53, 54, 55, 56, 57, 48, 49, 50, 51, 52, 53, 54, 55, 56, 57, 48>>, <<0, 0, 0, 0, 0, 0, 0, 36>>,
         <<231, 77, 164, 200, 255, 117, 141, 158, 41, 92, 196, 182, 79, 98, 32, 196, 6, 234, 77, 4, 217, 90, 31, 75, 40, 188, 62, 206, 210, 246, 186, 167, 215, 31, 16, 199, 119, 231, 174, 46, 198, 170, 153, 151, 21, 145, 50, 57, 200, 204, 70, 101, 127, 225, 162, 127, 200, 184, 250, 152, 80, 248, 73, 149>>>>,
      <<<<49, 50, 51, 52, 53, 54, 55, 56, 57, 48, 49, 50, 51, 52, 53, 54, 55, 56, 57, 48>>, <<0, 0, 0, 0, 0, 0, 0, 37>>,
         <<53, 106, 161, 114, 249, 80, 225, 17, 206, 213, 233, 119, 73, 233, 150, 175, 37, 68, 197, 205, 13, 188, 113, 13, 53, 213, 69, 31, 99, 105, 97, 65, 225, 126, 54, 20, 29, 231, 132, 254, 35, 223, 101, 230, 30, 107, 79, 179, 183, 44, 148, 41, 53, 235, 210, 24, 189, 132, 141, 67, 200, 220, 236, 17>>>>,
      <<<<49, 50, 51, 52, 53, 54, 55, 56, 57, 48, 49, 50, 51, 52, 53, 54, 55, 56, 57, 48>>, <<0, 0, 0, 0, 0, 0, 0, 38>>,
         <<13, 140, 156, 204, 191, 63, 226, 211, 74, 83, 18, 104, 211, 169, 216, 69, 69, 222, 205, 141, 159, 138, 29, 206, 142, 98, 23, 52, 223, 164, 238, 203, 89, 213, 50, 66, 159, 92, 148, 172, 207, 73, 152, 105, 106, 151, 220, 169, 152, 231, 181, 252, 128, 169, 80, 230, 117, 162, 39, 116, 132, 27, 185, 155>>>>,
      <<<<49, 50, 51, 52, 53, 54, 55, 56, 57, 48, 49, 50, 51, 52, 53, 54, 55, 56, 57, 48>>, <<0, 0, 0, 0, 0, 0, 0, 39>>,
         <<105, 243, 246, 22, 23, 248, 157, 13, 59, 145, 159, 195, 177, 2, 91, 71, 121, 192, 206, 245, 94, 93, 28, 113, 152, 243, 6, 88, 109, 95, 167, 55, 170, 29, 6, 188, 113, 178, 53, 46, 119, 110, 122, 87, 120, 65, 4, 71, 83, 119, 135, 220, 44, 9, 110, 61, 111, 156, 233, 246, 121, 169, 9, 104>>>>,
      <<<<49, 50, 51, 52, 53, 54, 55, 56, 57, 48, 49, 50, 51, 52, 53, 54, 55, 56, 57, 48>>, <<0, 0, 0, 0, 0, 0, 0, 40>>,
         <<22, 80, 236, 117, 179, 61, 198, 130, 166, 72, 232, 152, 194, 179, 111, 114, 218, 139, 154, 151, 93, 35, 125, 12, 189, 98, 77, 139, 171, 134, 90, 189, 174, 215, 79, 176, 85, 148, 100, 176, 14, 132, 73, 104, 237, 188, 1, 59, 86, 93, 150, 35, 252, 90, 17, 123, 26, 79, 213, 158, 88, 193, 85, 50>>>>,
      <<<<49, 50, 51, 52, 53, 54, 55, 56, 57, 48, 49, 50, 51, 52, 53, 54, 55, 56, 57, 48>>, <<0, 0, 0, 0, 0, 0, 0, 41>>,
         <<134, 119, 138, 121, 134, 124, 23, 32, 218, 88, 120, 29, 216, 141, 52, 226, 99, 173, 155, 123, 73, 255, 26, 118, 28, 47, 53, 1, 10, 114, 227, 156, 227, 225, 61, 50, 56, 199, 40, 196, 131, 194, 254, 23, 8, 232, 188, 223, 196, 52, 120, 72, 129, 224, 25, 116, 115, 202, 5, 51, 251, 113, 166, 92>>>>,
      <<<<49, 50, 51, 52, 53, 54, 55, 56, 57, 48, 49, 50, 51, 52, 53, 54, 55, 56, 57, 48>>, <<0, 0, 0, 0, 0, 0, 0, 42>>,
         <<34, 168, 212, 241, 33, 137, 104, 56, 136, 69, 229, 67, 21, 53, 11, 95, 72, 114, 148, 0, 38, 161, 223, 64, 89, 124, 89, 196, 132, 11, 40, 39, 138, 111, 28, 164, 84, 194, 157, 115, 227, 75, 101, 163, 181, 200, 20, 229, 207, 141, 132, 240, 51, 153, 202, 56, 79, 58, 207, 16, 158, 251, 96, 46>>>>,
      <<<<49, 50, 51, 52, 53, 54, 55, 56, 57, 48, 49, 50, 51, 52, 53, 54, 55, 56, 57, 48>>, <<0, 0, 0, 0, 0, 0, 0, 43>>,
         <<7, 217, 90, 105, 55, 170, 103, 6, 112, 12, 28, 250, 48, 131, 103, 251, 253, 44, 37, 169, 91, 81, 239, 216, 187, 10, 46, 210, 135, 201, 26, 185, 250, 199, 41, 220, 6, 1, 109, 93, 152, 61, 55, 249, 52, 127, 118, 65, 87, 146, 231, 211, 240, 206, 140, 53, 203, 81, 178, 85, 66, 221, 83, 89>>>>,
      <<<<49, 50, 51, 52, 53, 54, 55, 56, 57, 48, 49, 50, 51, 52, 53, 54, 55, 56, 57, 48>>, <<0, 0, 0, 0, 0, 0, 0, 44>>,
         <<174, 231, 184, 52, 161, 30, 31, 213, 31, 228, 44, 120, 234, 79, 174, 70, 166, 174, 57, 234, 180, 65, 122, 212, 197, 69, 44, 55, 78, 94, 245, 124, 99, 166, 219, 234, 217, 208, 166, 234, 68, 242, 199, 159, 58, 33, 131, 227, 125, 19, 39, 155, 183, 210, 156, 36, 251, 217, 94, 96, 151, 201, 166, 27>>>>,
      <<<<49, 50, 51, 52, 53, 54, 55, 56, 57, 48, 49, 50, 51, 52, 53, 54, 55, 56, 57, 48>>, <<0, 0, 0, 0, 0, 0, 0, 45>>,
         <<84, 162, 159, 202, 79, 14, 225, 218, 82, 157, 250, 81, 177, 31, 234, 18, 77, 214, 72, 233, 58, 182, 203, 132, 10, 37, 159, 61, 162, 210, 78, 196, 250, 100, 249, 62, 179, 202, 220, 44, 163, 151, 21, 175, 226, 105, 76, 191, 44, 40, 54, 21, 195, 6, 32, 54, 133, 212, 234, 71, 253, 63, 119, 81>>>>,
      <<<<49, 50, 51, 52, 53, 54, 55, 56, 57, 48, 49, 50, 51, 52, 53, 54, 55, 56, 57, 48>>, <<0, 0, 0, 0, 0, 0, 0, 46>>,
         <<203, 105, 44, 254, 169, 102, 112, 31, 210, 68, 160, 225, 235, 126, 52, 207, 18, 130, 222, 246, 69, 130, 212, 234, 96, 29, 242, 210, 65, 96, 98, 46, 25, 151, 230, 13, 56, 29, 147, 178, 197, 158, 67, 110, 146, 192, 22, 41, 107, 179, 224, 113, 14, 184, 224, 63, 193, 222, 254, 82, 97, 165, 207, 79>>>>,
      <<<<49, 50, 51, 52, 53, 54, 55, 56, 57, 48, 49, 50, 51, 52, 53, 54, 55, 56, 57, 48>>, <<0, 0, 0, 0, 0, 0, 0, 47>>,
         <<203, 237, 249, 178, 199, 253, 235, 199, 90, 177, 187, 14, 189, 193, 138, 9, 229, 18, 34, 65, 79, 8, 51, 112, 203, 155, 156, 239, 110, 129, 211, 238, 247, 115, 102, 168, 204, 41, 66, 136, 97, 208, 38, 116, 211, 136, 203, 127, 93, 106, 125, 186, 153, 51, 252, 65, 221, 242, 254, 20, 131, 250, 12, 220>>>>,
      <<<<49, 50, 51, 52, 53, 54, 55, 56, 57, 48, 49, 50, 51, 52, 53, 54, 55, 56, 57, 48>>, <<0, 0, 0, 0, 0, 0, 0, 48>>,
         <<244, 69, 149, 224, 111, 175, 241, 127, 229, 52, 105, 146, 137, 8, 49, 173, 155, 242, 186, 227, 220, 206, 219, 148, 37, 183, 162, 61, 81, 27, 108, 58, 226, 46, 164, 220, 166, 149, 96, 160, 161, 157, 19, 22, 187, 153, 187, 110, 245, 56, 68, 127, 50, 68, 45, 249, 72, 115, 160, 157, 82, 73, 50, 92>>>>,
      <<<<49, 50, 51, 52, 53, 54, 55, 56, 57, 48, 49, 50, 51, 52, 53, 54, 55, 56, 57, 48>>, <<0, 0, 0, 0, 0, 0, 0, 49>>,
         <<124, 92, 196, 242, 15, 38, 115, 231, 239, 225, 72, 6, 165, 26, 220, 9, 209, 233, 155, 140, 36, 37, 96, 164, 61, 16, 3, 136, 193, 142, 89, 178, 123, 247, 58, 154, 50, 197, 149, 168, 184, 168, 80, 68, 193, 56, 152, 14, 118, 175, 50, 139, 149, 237, 4, 142, 67, 232, 207, 59, 146, 111, 7, 203>>>>,
      <<<<49, 50, 51, 52, 53, 54, 55, 56, 57, 48, 49, 50, 51, 52, 53, 54, 55, 56, 57, 48>>, <<0, 0, 0, 0, 0, 0, 0, 50>>,
         <<252, 52, 32, 93, 241, 109, 251, 91, 177, 243, 146, 170, 85, 142, 77, 183, 171, 111, 43, 12, 180, 221, 156, 170, 81, 182, 50, 247, 180, 194, 113, 244, 169, 98, 5, 221, 139, 237, 76, 148, 132, 138, 129, 173, 24, 235, 38, 216, 244, 207, 61, 250, 87, 2, 208, 52, 195, 193, 197, 122, 244, 180, 7, 72>>>>,
      <<<<49, 50, 51, 52, 53, 54, 55, 56, 57, 48, 49, 50, 51, 52, 53, 54, 55, 56, 57, 48>>, <<0, 0, 0, 0, 0, 0, 0, 51>>,
         <<128, 11, 138, 223, 174, 90, 250, 1, 88, 45, 48, 51, 147, 10, 117, 151, 197, 228, 247, 54, 31, 135, 69, 117, 53, 165, 152, 19, 38, 206, 127, 110, 77, 28, 32, 62, 255, 108, 31, 239, 148, 33, 236, 66, 85, 59, 112, 53, 206, 81, 1, 193, 70, 27, 128, 188, 158, 131, 186, 158, 183, 205, 105, 73>>>>,
      <<<<49, 50, 51, 52, 53, 54, 55, 56, 57, 48, 49, 50, 51, 52, 53, 54, 55, 56, 57, 48>>, <<0, 0, 0, 0, 0, 0, 0, 52>>,
         <<208, 185, 223, 162, 164, 19, 166, 24, 10, 89, 48, 212, 11, 132, 92, 201, 223, 88, 66, 21, 97, 211, 51, 78, 254, 126, 202, 218, 135, 21, 239, 79, 144, 229, 176, 78, 178, 170, 213, 156, 127, 82, 41, 67, 131, 204, 8, 68, 90, 123, 106, 101, 15, 88, 40, 210, 54, 203, 49, 45, 219, 110, 181, 231>>>>,
      <<<<49, 50, 51, 52, 53, 54, 55, 56, 57, 48, 49, 50, 51, 52, 53, 54, 55, 56, 57, 48>>, <<0, 0, 0, 0, 0, 0, 0, 53>>,
         <<215, 201, 16, 79, 118, 190, 145, 213, 194, 63, 209, 227, 126, 139, 172, 175, 123, 198, 88, 174, 143, 80, 140, 127, 98, 120, 124, 66, 136, 29, 236, 224, 110, 9, 50, 30, 105, 135, 178, 75, 163, 246, 232, 97, 15, 101, 115, 149, 110, 190, 200, 227, 16, 173, 46, 59, 38, 28, 255, 113, 216, 195, 219, 179>>>>,
      <<<<49, 50, 51, 52, 53, 54, 55, 56, 57, 48, 49, 50, 51, 52, 53, 54, 55, 56, 57, 48>>, <<0, 0, 0, 0, 0, 0, 0, 54>>,
         <<159, 173, 32, 83, 78, 30, 86, 17, 121, 150, 60, 118, 123, 8, 160, 3, 77, 236, 157, 55, 224, 231, 161, 56, 115, 225, 8, 128, 183, 72, 158, 186, 149, 97, 9, 216, 155, 112, 100, 218, 249, 202, 57, 108, 187, 17, 252, 223, 85, 124, 123, 104, 50, 23, 94, 111, 252, 68, 20, 23, 20, 173, 97, 178>>>>,
      <<<<49, 50, 51, 52, 53, 54, 55, 56, 57, 48, 49, 50, 51, 52, 53, 54, 55, 56, 57, 48>>, <<0, 0, 0, 0, 0, 0, 0, 55>>,
         <<98, 39, 5, 191, 59, 234, 50, 88, 35, 73, 143, 153, 110, 220, 196, 96, 183, 93, 206, 217, 190, 249, 37, 78, 177, 129, 51, 28, 251, 17, 99, 202, 118, 240, 117, 220, 56, 101, 177, 137, 116, 107, 139, 59, 247, 243, 178, 229, 141, 194, 126, 113, 132, 34, 112, 105, 118, 184, 157, 158, 184, 110, 63, 169>>>>,
      <<<<49, 50, 51, 52, 53, 54, 55, 56, 57, 48, 49, 50, 51, 52, 53, 54, 55, 56, 57, 48>>, <<0, 0, 0, 0, 0, 0, 0, 66>>,
         <<28, 176, 252, 173, 62, 147, 66, 14, 126, 19, 210, 131, 251, 213, 137, 240, 13, 127, 190, 202, 101, 58, 64, 8, 222, 97, 1, 113, 115, 229, 200, 204, 1, 224, 59, 66, 132, 38, 229, 18, 42, 192, 210, 87, 25, 75, 183, 235, 173, 203, 100, 220, 212, 45, 7, 29, 151, 91, 131, 163, 45, 48, 226, 109>>>>,
      <<<<49, 50, 51, 52, 53, 54, 55, 56, 57, 48, 49, 50, 51, 52, 53, 54, 55, 56, 57, 48>>, <<0, 0, 0, 0, 0, 1, 226, 64>>,
         <<69, 123, 69, 122, 126, 249, 189, 145, 153, 112, 117, 155, 195, 104, 7, 116, 3, 153, 17, 205, 136, 197, 91, 47, 88, 228, 43, 248, 88, 143, 142, 80, 51, 240, 218, 41, 246, 155, 41, 157, 199, 163, 192, 208, 200, 64, 183, 3, 115, 186, 191, 191, 83, 28, 202, 174, 214, 115, 28, 164, 163, 36, 182, 99>>>>,
      <<<<49, 50, 51, 52, 53, 54, 55, 56, 57, 48, 49, 50, 51, 52, 53, 54, 55, 56, 57, 48>>, <<0, 0, 0, 0, 0, 8, 136, 136>>,
         <<185, 166, 217, 237, 18, 8, 119, 29, 207, 178, 189, 136, 24, 29, 45, 190, 92, 37, 124, 99, 230, 221, 162, 120, 250, 64, 218, 61, 32, 164, 145, 52, 121, 225, 140, 92, 231, 121, 6, 160, 201, 38, 161, 156, 129, 206, 78, 185, 130, 36, 235, 181, 42, 39, 228, 253, 56, 154, 73, 165, 34, 113, 214, 96>>>>,
      <<<<49, 50, 51, 52, 53, 54, 55, 56, 57, 48, 49, 50, 51, 52, 53, 54, 55, 56, 57, 48>>, <<0, 0, 0, 0, 0, 128, 0, 6>>,
         <<3, 101, 154, 165, 30, 94, 77, 111, 169, 131, 142, 29, 191, 123, 248, 214, 69, 146, 85, 220, 143, 223, 162, 147, 106, 239, 44, 239, 76, 246, 95, 238, 22, 84, 76, 84, 242, 253, 72, 44, 127, 226, 82, 31, 0, 152, 67, 80, 48, 116, 137, 239, 204, 30, 247, 183, 172, 180, 165, 255, 107, 40, 85, 80>>>>,
      <<<<49, 50, 51, 52, 53, 54, 55, 56, 57, 48, 49, 50, 51, 52, 53, 54, 55, 56, 57, 48>>, <<0, 0, 0, 0, 0, 232, 186, 58>>,
         <<198, 177, 84, 84, 17, 8, 200, 199, 22, 95, 118, 166, 199, 218, 219, 214, 33, 200, 12, 59, 189, 136, 173, 157, 253, 71, 89, 245, 43, 239, 96, 219, 248, 237, 23, 195, 48, 87, 114, 246, 122, 243, 226, 226, 164, 221, 226, 128, 107, 235, 113, 64, 147, 233, 18, 26, 75, 40, 82, 55, 61, 100, 11, 107>>>>,
      <<<<49, 50, 51, 52, 53, 54, 55, 56, 57, 48, 49, 50, 51, 52, 53, 54, 55, 56, 57, 48>>, <<0, 0, 0, 0, 1, 0, 0, 13>>,
         <<41, 154, 231, 146, 20, 25, 88, 223, 204, 186, 132, 48, 189, 188, 191, 133, 154, 59, 137, 114, 8, 20, 139, 57, 26, 143, 73, 167, 157, 163, 175, 121, 66, 178, 17, 26, 105, 232, 118, 117, 84, 143, 164, 201, 163, 12, 20, 162, 210, 20, 195, 87, 192, 170, 52, 90, 163, 218, 232, 84, 175, 1, 170, 3>>>>,
      <<<<49, 50, 51, 52, 53, 54, 55, 56, 57, 48, 49, 50, 51, 52, 53, 54, 55, 56, 57, 48>>, <<0, 0, 0, 0, 2, 0, 0, 26>>,
         <<70, 229, 187, 234, 46, 240, 77, 154, 24, 17, 54, 77, 120, 64, 162, 189, 139, 122, 83, 59, 101, 179, 125, 10, 163, 224, 83, 209, 129, 227, 177, 82, 57, 156, 52, 235, 238, 90, 47, 247, 175, 66, 58, 124, 152, 245, 191, 4, 184, 39, 54, 113, 235, 230, 21, 136, 14, 131, 35, 75, 106, 249, 49, 3>>>>,
      <<<<49, 50, 51, 52, 53, 54, 55, 56, 57, 48, 49, 50, 51, 52, 53, 54, 55, 56, 57, 48>>, <<128, 0, 0, 0, 0, 0, 0, 0>>,
         <<220, 196, 66, 37, 137, 51, 187, 121, 213, 152, 100, 96, 123, 178, 85, 10, 221, 37, 69, 84, 236, 16, 90, 91, 21, 189, 12, 96, 30, 175, 30, 67, 21, 86, 206, 123, 60, 42, 203, 126, 180, 160, 248, 97, 11, 121, 86, 159, 53, 82, 125, 165, 221, 6, 7, 142, 164, 224, 24, 242, 184, 193, 72, 214>>>>,
      <<<<49, 50, 51, 52, 53, 54, 55, 56, 57, 48, 49, 50, 51, 52, 53, 54, 55, 56, 57, 48>>, <<255, 255, 255, 255, 255, 255, 255, 255>>,
         <<184, 166, 92, 195, 249, 210, 194, 62, 86, 11, 0, 102, 40, 53, 99, 9, 153, 247, 1, 40, 191, 111, 202, 25, 46, 234, 90, 22, 22, 19, 220, 69, 233, 17, 71, 19, 127, 63, 105, 254, 142, 144, 234, 237, 71, 61, 172, 180, 48, 8, 62, 119, 152, 87, 29, 123, 202, 145, 217, 47, 178, 130, 66, 214>>>>,
      <<<<72>>, <<0, 0, 0, 0, 0, 0, 0, 0>>,
         <<214, 230, 128, 40, 199, 51, 23, 46, 68, 240, 82, 176, 241, 112, 129, 251, 72, 147, 200, 202, 156, 190, 49, 148, 45, 102, 210, 126, 205, 25, 205, 59, 88, 66, 62, 67, 85, 136, 70, 252, 49, 44, 103, 22, 176, 121, 155, 241, 17, 149, 28, 139, 235, 119, 9, 136, 227, 64, 32, 88, 254, 14, 6, 250>>>>,
      <<<<72>>, <<0, 0, 0, 0, 0, 0, 0, 1>>,
         <<254, 73, 252, 230, 103, 39, 60, 226, 155, 245, 122, 3, 243, 145, 201, 56, 206, 140, 35, 3, 227, 110, 104, 64, 204, 66, 158, 146, 203, 113, 99, 116, 95, 60, 90, 222, 154, 52, 84, 113, 21, 211, 244, 53, 197, 45, 59, 44, 32, 200, 73, 120, 20, 17, 144, 244, 153, 254, 208, 228, 207, 39, 83, 35>>>>,
      <<<<72>>, <<0, 0, 0, 0, 0, 0, 0, 2>>,
         <<132, 119, 65, 162, 26, 156, 51, 200, 218, 202, 14, 39, 106, 117, 29, 10, 206, 252, 248, 36, 100, 67, 209, 21, 232, 49, 58, 243, 111, 161, 31, 140, 193, 16, 80, 14, 137, 170, 20, 194, 16, 39, 178, 227, 208, 223, 69, 205, 33, 140, 53, 233, 89, 211, 86, 207, 208, 109, 38, 150, 249, 25, 149, 179>>>>,
      <<<<72>>, <<0, 0, 0, 0, 0, 0, 0, 3>>,
         <<213, 117, 210, 180, 103, 123, 149, 160, 170, 171, 83, 117, 127, 97, 208, 238, 3, 134, 179, 85, 221, 32, 22, 25, 255, 133, 173, 97, 16, 216, 151, 89, 219, 44, 197, 114, 197, 136, 75, 96, 249, 136, 255, 46, 22, 169, 54, 129, 5, 97, 138, 43, 155, 249, 211, 238, 161, 112, 163, 94, 236, 196, 225, 225>>>>,
      <<<<72>>, <<0, 0, 0, 0, 0, 0, 0, 4>>,
         <<230, 95, 31, 17, 179, 166, 83, 31, 172, 92, 87, 154, 187, 23, 121, 6, 208, 1, 100, 30, 191, 90, 152, 17, 105, 228, 178, 17, 99, 207, 146, 192, 16, 74, 26, 112, 251, 177, 147, 241, 55, 88, 181, 128, 125, 21, 138, 178, 71, 225, 28, 46, 55, 40, 245, 134, 192, 142, 5, 17, 232, 106, 108, 73>>>>,
      <<<<72>>, <<0, 0, 0, 0, 0, 0, 0, 6>>,
         <<200, 13, 156, 197, 231, 169, 141, 136, 15, 34, 63, 109, 213, 38, 123, 189, 159, 200, 65, 54, 8, 235, 202, 28, 235, 30, 91, 118, 65, 233, 59, 73, 177, 164, 255, 94, 68, 150, 122, 40, 87, 106, 118, 210, 194, 123, 73, 181, 213, 69, 213, 165, 69, 18, 236, 161, 213, 254, 217, 152, 69, 209, 74, 183>>>>,
      <<<<72>>, <<0, 0, 0, 0, 0, 0, 0, 16>>,
         <<23, 73, 148, 132, 20, 33, 25, 95, 10, 246, 28, 181, 218, 59, 185, 222, 166, 53, 109, 150, 35, 194, 27, 198, 172, 223, 61, 170, 207, 155, 28, 255, 248, 56, 52, 144, 57, 28, 93, 136, 151, 148, 77, 50, 37, 47, 105, 236, 96, 105, 146, 242, 1, 34, 210, 83, 184, 122, 97, 46, 60, 99, 245, 61>>>>,
      <<<<72>>, <<0, 0, 0, 0, 0, 0, 0, 29>>,
         <<73, 243, 116, 242, 68, 119, 249, 238, 64, 196, 219, 81, 189, 149, 67, 155, 109, 56, 21, 186, 225, 34, 42, 233, 240, 99, 183, 238, 215, 166, 116, 46, 42, 162, 167, 121, 255, 105, 9, 108, 8, 70, 107, 245, 54, 112, 119, 184, 220, 233, 230, 185, 139, 254, 208, 253, 255, 211, 169, 204, 178, 110, 189, 213>>>>,
      <<<<72>>, <<0, 0, 0, 0, 0, 0, 0, 33>>,
         <<155, 26, 213, 60, 164, 156, 242, 187, 249, 47, 152, 38, 183, 220, 222, 147, 116, 29, 5, 125, 213, 123, 129, 149, 221, 126, 103, 9, 55, 175, 229, 38, 170, 84, 73, 44, 1, 77, 193, 248, 176, 13, 42, 44, 61, 157, 10, 146, 71, 153, 166, 12, 244, 231, 158, 122, 40, 29, 60, 6, 172, 188, 210, 117>>>>,
      <<<<72>>, <<0, 0, 0, 0, 0, 0, 0, 66>>,
         <<117, 74, 69, 214, 112, 33, 28, 50, 19, 1, 188, 122, 107, 5, 28, 198, 145, 235, 121, 87, 54, 222, 10, 156, 248, 255, 99, 8, 181, 197, 181, 71, 57, 178, 191, 168, 59, 208, 25, 211, 113, 128, 47, 158, 62, 170, 169, 205, 147, 253, 50, 13, 16, 209, 110, 243, 182, 200, 160, 245, 114, 145, 86, 84>>>>,
      <<<<72>>, <<0, 0, 0, 0, 0, 8, 136, 136>>,
         <<79, 55, 75, 180, 104, 184, 190, 20, 53, 210, 98, 202, 238, 146, 0, 224, 248, 27, 130, 231, 104, 52, 218, 124, 253, 235, 74, 202, 255, 202, 199, 141, 33, 60, 184, 223, 98, 207, 132, 76, 106, 47, 48, 106, 232, 230, 216, 14, 211, 159, 11, 30, 69, 93, 144, 100, 90, 181, 206, 159, 160, 74, 59, 44>>>>,
      <<<<72>>, <<0, 0, 0, 0, 0, 128, 0, 6>>,
         <<118, 240, 201, 147, 142, 94, 128, 130, 39, 59, 118, 86, 8, 113, 58, 7, 159, 120, 14, 154, 141, 76, 23, 57, 127, 119, 1, 37, 38, 136, 127, 254, 242, 14, 148, 156, 56, 114, 166, 7, 196, 164, 243, 202, 88, 214, 51, 26, 132, 134, 201, 176, 22, 237, 189, 96, 180, 59, 86, 123, 0, 94, 122, 2>>>>,
      <<<<72>>, <<0, 0, 0, 0, 0, 232, 186, 58>>,
         <<191, 225, 176, 13, 194, 22, 10, 13, 112, 123, 6, 23, 89, 212, 163, 131, 106, 75, 178, 146, 127, 180, 115, 107, 73, 233, 190, 163, 238, 120, 89, 219, 42, 126, 240, 34, 236, 66, 71, 118, 127, 60, 156, 112, 232, 71, 32, 18, 124, 78, 190, 212, 205, 144, 179, 10, 188, 219, 58, 195, 47, 201, 249, 125>>>>,
      <<<<72>>, <<0, 0, 0, 0, 1, 0, 0, 13>>,
         <<244, 122, 1, 46, 24, 228, 246, 183, 169, 133, 201, 71, 142, 55, 253, 61, 177, 216, 44, 97, 115, 48, 247, 198, 33, 40, 245, 76, 8, 76, 85, 157, 137, 44, 198, 89, 14, 249, 248, 81, 74, 89, 167, 110, 222, 84, 132, 85, 213, 22, 7, 107, 209, 114, 73, 90, 136, 215, 200, 222, 164, 111, 106, 132>>>>,
      <<<<72>>, <<0, 0, 0, 0, 2, 0, 0, 26>>,
         <<190, 40, 218, 40, 177, 164, 142, 220, 196, 13, 78, 99, 52, 198, 43, 68, 71, 220, 128, 10, 171, 54, 213, 241, 231, 31, 100, 32, 16, 215, 223, 228, 136, 201, 214, 35, 82, 255, 13, 17, 211, 203, 195, 144, 19, 32, 82, 247, 44, 61, 242, 110, 62, 254, 239, 26, 103, 157, 5, 112, 96, 131, 97, 130>>>>,
      <<<<72>>, <<128, 0, 0, 0, 0, 0, 0, 0>>,
         <<31, 203, 116, 173, 47, 131, 114, 202, 255, 125, 106, 106, 144, 146, 184, 205, 152, 175, 209, 142, 8, 247, 244, 224, 51, 2, 56, 220, 214, 9, 3, 64, 21, 66, 197, 84, 140, 134, 70, 47, 66, 30, 143, 85, 118, 233, 210, 219, 230, 67, 75, 27, 140, 43, 195, 102, 143, 90, 66, 164, 20, 249, 202, 156>>>>,
      <<<<72>>, <<255, 255, 255, 255, 255, 255, 255, 255>>,
         <<239, 90, 150, 80, 119, 184, 121, 40, 22, 140, 47, 60, 108, 142, 185, 131, 109, 187, 83, 181, 176, 234, 120, 72, 149, 83, 109, 115, 237, 143, 124, 74, 169, 219, 122, 85, 19, 166, 215, 215, 1, 27, 167, 123, 88, 255, 97, 214, 125, 143, 212, 110, 119, 203, 45, 39, 195, 92, 61, 110, 152, 123, 207, 110>>>>,
      <<<<72, 101>>, <<0, 0, 0, 0, 0, 0, 0, 0>>,
         <<80, 102, 137, 68, 0, 69, 225, 80, 25, 1, 152, 89, 116, 230, 50, 128, 18, 248, 105, 244, 233, 134, 22, 102, 244, 70, 165, 238, 72, 117, 243, 243, 49, 181, 125, 47, 166, 167, 224, 240, 61, 228, 251, 132, 4, 116, 239, 27, 147, 18, 170, 232, 72, 46, 129, 207, 224, 217, 20, 209, 41, 97, 47, 44>>>>,
      <<<<72, 101>>, <<0, 0, 0, 0, 0, 0, 0, 1>>,
         <<164, 102, 135, 194, 127, 41, 87, 95, 210, 177, 193, 110, 90, 191, 248, 54, 59, 22, 129, 73, 58, 91, 5, 250, 84, 84, 236, 65, 118, 47, 84, 83, 111, 102, 172, 32, 100, 91, 109, 69, 113, 179, 84, 71, 81, 35, 175, 176, 35, 174, 36, 195, 190, 122, 117, 192, 100, 41, 240, 153, 136, 2, 239, 38>>>>,
      <<<<72, 101>>, <<0, 0, 0, 0, 0, 0, 0, 2>>,
         <<120, 29, 91, 87, 198, 113, 202, 1, 24, 234, 190, 144, 167, 87, 154, 96, 50, 191, 158, 142, 60, 248, 246, 29, 14, 242, 149, 144, 41, 127, 241, 243, 108, 26, 48, 124, 103, 227, 49, 109, 40, 189, 62, 219, 214, 190, 154, 220, 236, 5, 92, 137, 87, 180, 200, 90, 0, 106, 17, 236, 13, 5, 254, 136>>>>,
      <<<<72, 101>>, <<0, 0, 0, 0, 0, 0, 0, 3>>,
         <<61, 184, 170, 126, 208, 251, 36, 168, 69, 92, 90, 217, 74, 27, 141, 143, 154, 57, 47, 186, 161, 110, 68, 237, 16, 117, 47, 12, 185, 144, 170, 147, 122, 222, 79, 152, 158, 235, 132, 42, 43, 242, 6, 196, 223, 127, 228, 192, 122, 171, 130, 189, 114, 4, 64, 65, 77, 78, 102, 170, 101, 104, 114, 162>>>>,
      <<<<72, 101>>, <<0, 0, 0, 0, 0, 0, 0, 4>>,
         <<223, 140, 154, 111, 238, 236, 156, 230, 136, 73, 114, 134, 242, 184, 226, 4, 95, 190, 78, 41, 30, 133, 125, 0, 169, 70, 151, 69, 217, 195, 193, 119, 178, 101, 8, 20, 89, 98, 197, 219, 214, 56, 31, 233, 122, 54, 156, 238, 190, 39, 31, 58, 122, 45, 95, 162, 27, 214, 210, 49, 127, 183, 204, 203>>>>,
      <<<<72, 101>>, <<0, 0, 0, 0, 0, 0, 0, 6>>,
         <<149, 21, 125, 119, 69, 131, 80, 100, 245, 73, 10, 195, 57, 242, 123, 180, 255, 150, 87, 0, 217, 224, 84, 59, 115, 250, 162, 60, 85, 38, 205, 141, 209, 197, 40, 0, 149, 203, 20, 56, 167, 223, 149, 42, 91, 60, 201, 126, 235, 172, 40, 18, 213, 199, 1, 219, 32, 178, 83, 191, 187, 228, 79, 217>>>>,
      <<<<72, 101>>, <<0, 0, 0, 0, 0, 0, 0, 16>>,
         <<205, 194, 54, 9, 92, 171, 224, 198, 130, 228, 150, 254, 249, 39, 94, 70, 12, 181, 125, 218, 112, 168, 145, 72, 70, 182, 60, 100, 221, 186, 123, 89, 124, 123, 147, 220, 243, 236, 26, 84, 4, 27, 102, 93, 149, 51, 75, 227, 175, 175, 112, 223, 106, 46, 183, 46, 145, 225, 86, 57, 244, 220, 50, 178>>>>,
      <<<<72, 101>>, <<0, 0, 0, 0, 0, 0, 0, 29>>,
         <<235, 124, 54, 3, 149, 110, 235, 215, 118, 156, 163, 20, 111, 220, 197, 102, 99, 83, 203, 100, 57, 149, 90, 94, 104, 227, 188, 119, 50, 181, 145, 63, 91, 192, 241, 224, 205, 215, 64, 93, 170, 111, 91, 10, 221, 111, 31, 88, 125, 251, 120, 134, 197, 226, 178, 186, 139, 90, 6, 166, 51, 28, 165, 175>>>>,
      <<<<72, 101>>, <<0, 0, 0, 0, 0, 0, 0, 33>>,
         <<211, 20, 44, 29, 143, 128, 66, 255, 248, 106, 172, 255, 194, 222, 192, 229, 159, 180, 92, 253, 102, 253, 179, 67, 171, 17, 85, 57, 168, 182, 227, 102, 224, 21, 21, 37, 42, 41, 43, 211, 43, 221, 60, 56, 63, 144, 210, 245, 198, 124, 123, 255, 126, 26, 138, 144, 240, 74, 20, 244, 47, 20, 175, 94>>>>,
      <<<<72, 101>>, <<0, 0, 0, 0, 0, 0, 0, 66>>,
         <<87, 157, 149, 237, 5, 23, 47, 219, 220, 255, 171, 95, 108, 103, 143, 131, 12, 55, 234, 242, 36, 219, 180, 111, 181, 12, 219, 13, 166, 163, 154, 194, 217, 239, 9, 24, 189, 221, 111, 2, 142, 109, 179, 30, 47, 129, 53, 87, 31, 73, 126, 6, 70, 89, 38, 129, 9, 203, 233, 16, 123, 55, 170, 177>>>>,
      <<<<72, 101>>, <<0, 0, 0, 0, 0, 8, 136, 136>>,
         <<225, 73, 246, 200, 55, 93, 46, 137, 193, 243, 254, 215, 179, 157, 15, 209, 204, 176, 240, 27, 249, 21, 135, 55, 55, 65, 108, 153, 123, 170, 212, 40, 223, 91, 225, 97, 122, 68, 94, 164, 178, 135, 66, 191, 130, 150, 90, 208, 40, 238, 191, 149, 239, 35, 17, 234, 237, 212, 246, 17, 4, 246, 247, 124>>>>,
      <<<<72, 101>>, <<0, 0, 0, 0, 0, 128, 0, 6>>,
         <<135, 22, 16, 128, 140, 2, 77, 20, 255, 6, 98, 156, 93, 220, 173, 70, 158, 202, 75, 36, 181, 102, 164, 148, 186, 159, 51, 121, 69, 109, 145, 249, 101, 136, 34, 237, 150, 229, 213, 68, 109, 193, 228, 249, 88, 148, 140, 245, 9, 56, 36, 13, 50, 240, 45, 166, 248, 54, 153, 112, 13, 186, 166, 112>>>>,
      <<<<72, 101>>, <<0, 0, 0, 0, 0, 232, 186, 58>>,
         <<66, 85, 84, 109, 43, 123, 117, 166, 248, 161, 195, 191, 247, 216, 125, 16, 40, 64, 64, 96, 161, 140, 247, 246, 88, 130, 146, 224, 109, 51, 234, 172, 102, 203, 246, 26, 200, 188, 217, 247, 72, 61, 9, 16, 124, 236, 199, 86, 228, 95, 175, 130, 142, 2, 125, 76, 159, 210, 34, 158, 89, 100, 142, 235>>>>,
      <<<<72, 101>>, <<0, 0, 0, 0, 1, 0, 0, 13>>,
         <<156, 126, 57, 241, 105, 176, 100, 105, 90, 106, 95, 196, 162, 242, 25, 109, 147, 63, 193, 224, 59, 109, 12, 184, 10, 206, 247, 240, 129, 3, 238, 88, 15, 75, 52, 184, 176, 144, 223, 204, 104, 59, 184, 137, 249, 185, 226, 180, 23, 202, 142, 104, 2, 71, 233, 40, 120, 20, 251, 68, 254, 213, 236, 98>>>>,
      <<<<72, 101>>, <<0, 0, 0, 0, 2, 0, 0, 26>>,
         <<59, 12, 150, 40, 241, 32, 87, 22, 147, 221, 238, 37, 235, 63, 70, 161, 223, 155, 13, 248, 36, 72, 166, 8, 20, 58, 61, 82, 251, 137, 129, 114, 183, 47, 169, 170, 26, 226, 71, 171, 126, 54, 29, 61, 167, 85, 203, 223, 115, 97, 120, 35, 28, 242, 23, 221, 107, 239, 149, 22, 168, 147, 14, 202>>>>,
      <<<<72, 101>>, <<128, 0, 0, 0, 0, 0, 0, 0>>,
         <<242, 19, 53, 23, 85, 57, 36, 79, 127, 177, 149, 234, 22, 182, 188, 221, 87, 42, 75, 230, 87, 252, 195, 104, 140, 92, 147, 253, 19, 149, 98, 57, 228, 28, 185, 103, 14, 182, 152, 224, 119, 77, 187, 121, 206, 13, 148, 101, 69, 95, 134, 35, 89, 73, 4, 60, 86, 67, 147, 141, 51, 122, 146, 192>>>>,
      <<<<72, 101>>, <<255, 255, 255, 255, 255, 255, 255, 255>>,
         <<82, 61, 149, 16, 8, 27, 157, 210, 63, 201, 205, 175, 239, 92, 28, 65, 61, 50, 233, 109, 244, 184, 216, 115, 197, 160, 251, 112, 103, 7, 75, 70, 82, 139, 102, 18, 237, 7, 136, 29, 113, 79, 182, 205, 3, 74, 232, 29, 98, 222, 255, 49, 203, 9, 97, 13, 52, 95, 19, 160, 92, 230, 86, 135>>>>,
      <<<<72, 101, 108>>, <<0, 0, 0, 0, 0, 0, 0, 0>>,
         <<191, 65, 78, 195, 202, 85, 247, 229, 84, 135, 31, 174, 134, 98, 253, 244, 105, 5, 165, 195, 18, 104, 235, 233, 166, 215, 206, 233, 65, 18, 136, 198, 59, 74, 162, 94, 182, 83, 91, 66, 173, 107, 83, 96, 23, 122, 113, 85, 20, 161, 103, 81, 246, 232, 32, 112, 38, 255, 66, 108, 188, 130, 33, 249>>>>,
      <<<<72, 101, 108>>, <<0, 0, 0, 0, 0, 0, 0, 1>>,
         <<249, 68, 70, 124, 115, 69, 66, 132, 28, 235, 112, 224, 138, 67, 121, 225, 172, 195, 47, 34, 56, 155, 77, 146, 216, 88, 196, 130, 186, 252, 39, 209, 55, 227, 124, 204, 113, 80, 158, 172, 218, 19, 65, 79, 203, 168, 57, 173, 232, 149, 118, 208, 42, 130, 32, 57, 136, 127, 156, 203, 239, 86, 222, 181>>>>,
      <<<<72, 101, 108>>, <<0, 0, 0, 0, 0, 0, 0, 2>>,
         <<9, 219, 101, 185, 109, 128, 180, 159, 112, 41, 211, 115, 87, 153, 103, 227, 152, 47, 93, 43, 119, 163, 136, 209, 59, 65, 12, 158, 47, 134, 146, 215, 6, 18, 87, 234, 193, 17, 125, 245, 169, 94, 79, 28, 172, 110, 171, 72, 188, 151, 171, 243, 164, 115, 142, 56, 125, 124, 152, 106, 230, 28, 130, 102>>>>,
      <<<<72, 101, 108>>, <<0, 0, 0, 0, 0, 0, 0, 3>>,
         <<180, 25, 111, 177, 240, 149, 200, 168, 233, 251, 195, 8, 144, 215, 226, 149, 206, 164, 156, 33, 196, 180, 161, 141, 196, 150, 187, 216, 141, 198, 107, 91, 118, 197, 18, 86, 103, 72, 44, 95, 170, 46, 84, 18, 132, 207, 17, 102, 84, 56, 68, 239, 229, 67, 68, 236, 184, 11, 206, 11, 52, 104, 32, 206>>>>,
      <<<<72, 101, 108>>, <<0, 0, 0, 0, 0, 0, 0, 4>>,
         <<97, 66, 57, 233, 240, 240, 237, 233, 102, 67, 50, 165, 180, 69, 184, 167, 87, 49, 88, 80, 117, 184, 158, 72, 110, 59, 42, 137, 68, 223, 232, 97, 21, 192, 196, 107, 156, 241, 123, 100, 154, 37, 240, 169, 167, 17, 44, 231, 104, 39, 70, 235, 63, 228, 70, 79, 136, 36, 165, 47, 128, 119, 238, 131>>>>,
      <<<<72, 101, 108>>, <<0, 0, 0, 0, 0, 0, 0, 6>>,
         <<10, 119, 12, 169, 233, 159, 135, 22, 98, 164, 160, 95, 9, 240, 224, 98, 60, 108, 128, 201, 205, 80, 54, 12, 93, 124, 191, 24, 114, 0, 84, 122, 157, 9, 102, 26, 123, 188, 41, 208, 116, 72, 137, 102, 149, 13, 112, 154, 83, 203, 189, 53, 173, 204, 162, 90, 2, 236, 32, 17, 180, 114, 74, 216>>>>,
      <<<<72, 101, 108>>, <<0, 0, 0, 0, 0, 0, 0, 16>>,
         <<122, 103, 88, 239, 110, 234, 166, 122, 215, 169, 203, 154, 184, 82, 169, 233, 215, 12, 83, 103, 208, 252, 167, 3, 161, 222, 240, 182, 6, 97, 168, 107, 190, 61, 72, 128, 145, 52, 67, 97, 226, 36, 248, 130, 190, 252, 241, 16, 198, 115, 38, 87, 129, 27, 164, 151, 44, 203, 245, 180, 203, 13, 164, 195>>>>,
      <<<<72, 101, 108>>, <<0, 0, 0, 0, 0, 0, 0, 29>>,
         <<57, 24, 97, 40, 11, 92, 7, 38, 163, 177, 178, 158, 19, 254, 78, 224, 74, 43, 31, 211, 46, 3, 89, 175, 73, 72, 243, 43, 99, 14, 111, 195, 239, 203, 21, 98, 190, 227, 82, 214, 4, 132, 111, 205, 92, 127, 71, 15, 12, 18, 19, 231, 4, 217, 24, 182, 170, 11, 14, 64, 129, 74, 18, 62>>>>,
      <<<<72, 101, 108>>, <<0, 0, 0, 0, 0, 0, 0, 33>>,
         <<181, 135, 1, 228, 20, 40, 19, 217, 22, 113, 123, 64, 195, 121, 2, 120, 143, 7, 26, 78, 78, 147, 117, 107, 29, 11, 13, 70, 180, 204, 142, 6, 213, 136, 78, 189, 105, 164, 14, 130, 216, 68, 142, 168, 110, 204, 53, 0, 3, 86, 99, 163, 26, 79, 246, 222, 157, 166, 118, 154, 246, 105, 210, 48>>>>,
      <<<<72, 101, 108>>, <<0, 0, 0, 0, 0, 0, 0, 66>>,
         <<35, 57, 181, 100, 208, 180, 158, 158, 209, 22, 100, 60, 87, 91, 150, 230, 169, 189, 17, 34, 189, 38, 217, 144, 175, 5, 150, 100, 15, 13, 114, 17, 40, 159, 69, 102, 241, 76, 7, 85, 49, 93, 70, 172, 72, 200, 107, 167, 68, 209, 182, 132, 158, 204, 209, 43, 161, 240, 173, 148, 150, 102, 133, 145>>>>,
      <<<<72, 101, 108>>, <<0, 0, 0, 0, 0, 8, 136, 136>>,
         <<8, 156, 86, 17, 56, 142, 18, 242, 215, 246, 137, 149, 100, 57, 188, 10, 13, 43, 153, 188, 95, 19, 86, 118, 63, 116, 72, 37, 157, 176, 40, 160, 25, 40, 112, 57, 19, 151, 192, 53, 118, 23, 234, 17, 123, 20, 123, 160, 146, 33, 67, 158, 168, 236, 152, 133, 137, 4, 33, 26, 250, 231, 115, 1>>>>,
      <<<<72, 101, 108>>, <<0, 0, 0, 0, 0, 128, 0, 6>>,
         <<7, 70, 61, 242, 54, 243, 99, 151, 240, 251, 174, 57, 189, 162, 165, 71, 237, 202, 250, 237, 220, 149, 117, 78, 28, 96, 47, 94, 29, 68, 215, 110, 234, 49, 77, 6, 112, 75, 156, 204, 175, 67, 52, 127, 170, 153, 192, 63, 206, 116, 50, 140, 117, 149, 17, 242, 56, 179, 12, 167, 147, 51, 50, 218>>>>,
      <<<<72, 101, 108>>, <<0, 0, 0, 0, 0, 232, 186, 58>>,
         <<71, 201, 199, 238, 247, 171, 6, 10, 172, 49, 195, 71, 154, 182, 226, 102, 140, 193, 74, 124, 131, 93, 93, 217, 54, 68, 87, 138, 133, 142, 170, 200, 158, 3, 100, 14, 102, 249, 219, 66, 12, 29, 47, 209, 169, 220, 125, 132, 175, 152, 71, 55, 204, 166, 168, 31, 0, 130, 187, 141, 199, 66, 131, 36>>>>,
      <<<<72, 101, 108>>, <<0, 0, 0, 0, 1, 0, 0, 13>>,
         <<131, 171, 134, 181, 30, 146, 48, 140, 137, 75, 50, 238, 104, 164, 168, 55, 247, 173, 238, 130, 117, 154, 238, 58, 60, 102, 50, 113, 189, 222, 221, 124, 192, 217, 221, 3, 21, 180, 1, 254, 133, 214, 77, 112, 160, 184, 120, 203, 200, 33, 227, 234, 168, 78, 94, 167, 204, 251, 119, 139, 169, 54, 9, 134>>>>,
      <<<<72, 101, 108>>, <<0, 0, 0, 0, 2, 0, 0, 26>>,
         <<201, 250, 207, 166, 156, 70, 81, 84, 67, 249, 17, 84, 247, 150, 192, 243, 87, 2, 144, 63, 75, 60, 79, 226, 60, 124, 44, 31, 31, 129, 170, 69, 75, 170, 174, 140, 8, 174, 105, 0, 91, 251, 235, 131, 64, 219, 234, 134, 243, 6, 97, 195, 143, 132, 42, 219, 88, 120, 184, 169, 8, 9, 28, 163>>>>,
      <<<<72, 101, 108>>, <<128, 0, 0, 0, 0, 0, 0, 0>>,
         <<83, 7, 182, 210, 213, 40, 98, 209, 9, 194, 37, 50, 178, 160, 58, 76, 252, 152, 29, 18, 132, 77, 89, 160, 55, 101, 244, 225, 100, 195, 11, 216, 204, 197, 4, 42, 191, 145, 183, 1, 80, 149, 138, 51, 51, 158, 59, 243, 219, 223, 225, 123, 1, 233, 219, 249, 239, 244, 155, 169, 147, 28, 99, 148>>>>,
      <<<<72, 101, 108>>, <<255, 255, 255, 255, 255, 255, 255, 255>>,
         <<7, 210, 189, 247, 123, 48, 111, 118, 185, 228, 30, 219, 40, 5, 73, 203, 127, 75, 88, 50, 247, 198, 161, 250, 156, 158, 176, 67, 225, 233, 69, 206, 154, 75, 152, 140, 97, 16, 218, 251, 54, 12, 160, 46, 229, 110, 228, 104, 57, 209, 9, 180, 34, 58, 239, 30, 153, 86, 232, 75, 96, 23, 36, 88>>>>,
      <<<<72, 101, 108, 108>>, <<0, 0, 0, 0, 0, 0, 0, 0>>,
         <<235, 203, 6, 200, 174, 113, 10, 127, 130, 168, 85, 100, 243, 114, 40, 56, 210, 3, 22, 85, 53, 203, 91, 250, 214, 250, 113, 35, 76, 90, 67, 180, 240, 27, 159, 187, 39, 204, 139, 100, 98, 30, 196, 23, 144, 97, 201, 193, 117, 168, 77, 8, 171, 103, 173, 147, 9, 163, 150, 39, 217, 21, 226, 94>>>>,
      <<<<72, 101, 108, 108>>, <<0, 0, 0, 0, 0, 0, 0, 1>>,
         <<86, 213, 157, 60, 207, 25, 219, 242, 67, 127, 114, 108, 55, 154, 204, 146, 175, 2, 66, 21, 39, 121, 189, 238, 190, 131, 86, 60, 59, 91, 185, 209, 30, 143, 209, 248, 203, 132, 109, 65, 70, 218, 93, 37, 206, 86, 241, 144, 162, 214, 243, 6, 191, 96, 247, 187, 198, 66, 218, 244, 48, 63, 68, 17>>>>,
      <<<<72, 101, 108, 108>>, <<0, 0, 0, 0, 0, 0, 0, 2>>,
         <<225, 101, 69, 17, 22, 188, 57, 97, 50, 226, 59, 221, 74, 42, 135, 192, 223, 33, 228, 38, 191, 31, 49, 170, 131, 97, 84, 176, 214, 223, 141, 50, 128, 252, 89, 41, 50, 45, 65, 129, 243, 206, 0, 118, 13, 189, 47, 140, 141, 3, 4, 117, 57, 226, 244, 219, 251, 79, 63, 155, 187, 198, 121, 175>>>>,
      <<<<72, 101, 108, 108>>, <<0, 0, 0, 0, 0, 0, 0, 3>>,
         <<13, 149, 164, 30, 199, 151, 66, 255, 225, 100, 98, 70, 108, 148, 87, 173, 148, 219, 203, 248, 226, 140, 57, 25, 180, 206, 62, 142, 249, 56, 250, 63, 186, 22, 23, 221, 159, 73, 232, 232, 176, 149, 246, 112, 103, 213, 225, 68, 64, 228, 61, 64, 220, 4, 41, 77, 104, 157, 185, 121, 220, 165, 64, 199>>>>,
      <<<<72, 101, 108, 108>>, <<0, 0, 0, 0, 0, 0, 0, 4>>,
         <<11, 222, 80, 26, 240, 165, 111, 117, 15, 96, 81, 147, 72, 12, 155, 113, 90, 116, 9, 28, 110, 163, 39, 73, 253, 244, 121, 135, 115, 162, 224, 196, 107, 95, 246, 131, 232, 130, 112, 152, 167, 44, 171, 45, 78, 180, 157, 121, 229, 245, 39, 78, 15, 77, 133, 134, 14, 165, 177, 91, 234, 75, 90, 41>>>>,
      <<<<72, 101, 108, 108>>, <<0, 0, 0, 0, 0, 0, 0, 6>>,
         <<135, 44, 113, 52, 215, 241, 0, 103, 240, 45, 160, 137, 125, 86, 133, 220, 2, 5, 228, 239, 95, 240, 221, 144, 167, 114, 78, 249, 20, 96, 24, 194, 100, 225, 12, 50, 45, 28, 108, 128, 243, 104, 41, 164, 238, 229, 95, 63, 54, 65, 51, 65, 241, 198, 101, 80, 176, 42, 38, 141, 46, 60, 77, 202>>>>,
      <<<<72, 101, 108, 108>>, <<0, 0, 0, 0, 0, 0, 0, 16>>,
         <<65, 175, 56, 58, 11, 7, 201, 47, 69, 134, 230, 206, 35, 91, 4, 232, 247, 137, 59, 161, 19, 231, 47, 72, 81, 130, 98, 186, 101, 119, 128, 227, 225, 36, 191, 212, 27, 49, 246, 244, 89, 208, 83, 8, 122, 63, 204, 42, 196, 242, 11, 189, 10, 60, 185, 147, 255, 92, 112, 127, 81, 26, 235, 10>>>>,
      <<<<72, 101, 108, 108>>, <<0, 0, 0, 0, 0, 0, 0, 29>>,
         <<18, 130, 219, 149, 211, 63, 21, 190, 152, 211, 44, 110, 98, 137, 168, 209, 68, 172, 51, 62, 170, 76, 203, 153, 98, 234, 230, 120, 228, 218, 140, 27, 183, 47, 17, 134, 189, 218, 109, 206, 237, 136, 66, 24, 234, 120, 121, 42, 63, 4, 122, 88, 131, 196, 98, 163, 131, 219, 217, 255, 30, 10, 180, 75>>>>,
      <<<<72, 101, 108, 108>>, <<0, 0, 0, 0, 0, 0, 0, 33>>,
         <<165, 124, 32, 162, 222, 241, 237, 114, 152, 173, 197, 59, 125, 210, 219, 219, 69, 119, 156, 65, 59, 149, 81, 192, 29, 100, 75, 98, 7, 230, 52, 153, 118, 104, 187, 132, 81, 223, 198, 196, 4, 18, 248, 168, 92, 25, 78, 190, 135, 72, 115, 78, 16, 37, 175, 114, 160, 122, 2, 61, 16, 68, 88, 170>>>>,
      <<<<72, 101, 108, 108>>, <<0, 0, 0, 0, 0, 0, 0, 66>>,
         <<249, 113, 239, 251, 158, 112, 115, 0, 17, 168, 69, 105, 151, 231, 197, 36, 134, 21, 7, 155, 243, 7, 13, 71, 88, 148, 27, 39, 141, 147, 156, 158, 243, 37, 17, 150, 240, 155, 151, 114, 80, 95, 109, 167, 2, 4, 124, 255, 109, 203, 41, 22, 87, 148, 120, 121, 106, 119, 153, 231, 32, 91, 84, 46>>>>,
      <<<<72, 101, 108, 108>>, <<0, 0, 0, 0, 0, 8, 136, 136>>,
         <<66, 134, 215, 192, 64, 215, 239, 183, 164, 207, 104, 142, 194, 231, 121, 183, 140, 223, 47, 23, 209, 99, 210, 88, 165, 29, 183, 26, 40, 45, 155, 41, 238, 155, 39, 82, 1, 6, 140, 67, 129, 129, 165, 223, 50, 91, 1, 52, 155, 104, 39, 185, 110, 238, 179, 202, 74, 221, 231, 7, 19, 252, 104, 206>>>>,
      <<<<72, 101, 108, 108>>, <<0, 0, 0, 0, 0, 128, 0, 6>>,
         <<171, 204, 98, 130, 108, 97, 41, 27, 240, 100, 131, 1, 250, 178, 188, 132, 149, 129, 21, 161, 125, 178, 212, 25, 237, 139, 41, 55, 168, 175, 152, 58, 30, 165, 27, 0, 91, 181, 164, 131, 192, 85, 239, 162, 217, 158, 99, 175, 6, 173, 37, 61, 127, 151, 185, 88, 154, 47, 12, 21, 223, 75, 30, 47>>>>,
      <<<<72, 101, 108, 108>>, <<0, 0, 0, 0, 0, 232, 186, 58>>,
         <<183, 141, 199, 210, 195, 252, 221, 82, 203, 222, 83, 215, 235, 237, 168, 196, 43, 241, 152, 1, 197, 183, 252, 22, 148, 142, 76, 49, 248, 28, 250, 35, 235, 123, 151, 177, 1, 76, 14, 222, 229, 105, 155, 82, 164, 245, 220, 107, 255, 96, 67, 24, 140, 121, 74, 93, 112, 159, 41, 194, 96, 161, 37, 35>>>>,
      <<<<72, 101, 108, 108>>, <<0, 0, 0, 0, 1, 0, 0, 13>>,
         <<51, 44, 89, 87, 243, 226, 221, 246, 168, 134, 187, 189, 82, 11, 31, 16, 41, 79, 61, 11, 17, 120, 6, 139, 91, 228, 70, 39, 85, 204, 55, 157, 104, 169, 89, 155, 244, 215, 69, 60, 176, 165, 246, 232, 204, 0, 67, 219, 120, 54, 177, 182, 86, 23, 147, 241, 184, 242, 118, 116, 28, 109, 42, 61>>>>,
      <<<<72, 101, 108, 108>>, <<0, 0, 0, 0, 2, 0, 0, 26>>,
         <<146, 230, 98, 116, 137, 106, 103, 156, 198, 183, 41, 239, 174, 183, 66, 222, 2, 229, 241, 38, 44, 172, 148, 130, 180, 203, 48, 230, 68, 121, 184, 144, 232, 249, 152, 106, 45, 220, 16, 72, 12, 76, 86, 1, 4, 28, 31, 38, 231, 24, 170, 60, 20, 221, 205, 85, 33, 187, 115, 131, 92, 164, 8, 59>>>>,
      <<<<72, 101, 108, 108>>, <<128, 0, 0, 0, 0, 0, 0, 0>>,
         <<186, 210, 232, 180, 116, 230, 32, 109, 170, 162, 145, 158, 125, 164, 117, 190, 84, 229, 206, 109, 42, 146, 136, 164, 215, 196, 169, 1, 70, 121, 172, 7, 215, 184, 81, 115, 207, 217, 204, 4, 147, 248, 25, 192, 52, 222, 139, 61, 74, 128, 134, 160, 231, 236, 17, 126, 224, 154, 14, 146, 189, 144, 215, 31>>>>,
      <<<<72, 101, 108, 108>>, <<255, 255, 255, 255, 255, 255, 255, 255>>,
         <<29, 209, 197, 15, 16, 187, 165, 133, 1, 234, 13, 178, 140, 90, 129, 109, 78, 158, 32, 61, 140, 60, 100, 120, 0, 11, 184, 226, 173, 46, 189, 101, 205, 202, 31, 135, 102, 138, 8, 47, 200, 38, 163, 139, 30, 132, 51, 126, 115, 178, 201, 153, 240, 192, 135, 69, 243, 183, 166, 58, 195, 200, 127, 231>>>>,
      <<<<72, 101, 108, 108, 111>>, <<0, 0, 0, 0, 0, 0, 0, 0>>,
         <<40, 51, 54, 120, 33, 41, 181, 206, 189, 25, 175, 181, 11, 235, 182, 89, 99, 42, 201, 171, 189, 191, 86, 122, 154, 60, 84, 180, 200, 165, 165, 148, 178, 239, 239, 125, 1, 79, 172, 195, 248, 120, 35, 140, 136, 62, 55, 115, 187, 204, 224, 255, 180, 111, 103, 94, 234, 147, 168, 97, 192, 103, 129, 118>>>>,
      <<<<72, 101, 108, 108, 111>>, <<0, 0, 0, 0, 0, 0, 0, 1>>,
         <<236, 118, 194, 246, 237, 201, 228, 207, 246, 224, 6, 42, 129, 212, 192, 96, 3, 181, 211, 17, 196, 8, 116, 101, 236, 115, 82, 186, 13, 101, 46, 70, 161, 93, 48, 203, 170, 115, 218, 208, 130, 218, 73, 12, 72, 58, 235, 247, 98, 193, 148, 188, 231, 67, 136, 252, 168, 224, 73, 190, 251, 240, 88, 17>>>>,
      <<<<72, 101, 108, 108, 111>>, <<0, 0, 0, 0, 0, 0, 0, 2>>,
         <<49, 19, 111, 153, 99, 253, 75, 35, 53, 180, 106, 75, 216, 58, 52, 249, 142, 148, 27, 96, 102, 106, 5, 66, 199, 161, 34, 215, 140, 3, 85, 203, 209, 216, 127, 250, 19, 122, 18, 45, 235, 153, 117, 76, 222, 215, 1, 108, 247, 249, 59, 239, 91, 104, 92, 84, 9, 4, 130, 194, 218, 167, 200, 91>>>>,
      <<<<72, 101, 108, 108, 111>>, <<0, 0, 0, 0, 0, 0, 0, 3>>,
         <<209, 13, 158, 194, 204, 66, 250, 173, 120, 112, 101, 71, 122, 130, 209, 64, 196, 229, 188, 189, 213, 146, 206, 145, 89, 155, 219, 202, 45, 94, 88, 203, 48, 48, 233, 231, 175, 36, 254, 150, 128, 38, 62, 132, 125, 17, 98, 4, 159, 29, 83, 251, 105, 220, 239, 174, 135, 129, 67, 154, 87, 244, 177, 227>>>>,
      <<<<72, 101, 108, 108, 111>>, <<0, 0, 0, 0, 0, 0, 0, 4>>,
         <<251, 246, 128, 101, 56, 158, 232, 152, 70, 254, 213, 101, 43, 251, 66, 35, 145, 76, 58, 212, 203, 166, 87, 26, 147, 199, 94, 216, 66, 16, 81, 6, 165, 228, 229, 41, 189, 126, 41, 250, 225, 59, 152, 40, 81, 3, 198, 158, 106, 239, 152, 50, 183, 156, 165, 28, 109, 251, 60, 26, 101, 248, 189, 195>>>>,
      <<<<72, 101, 108, 108, 111>>, <<0, 0, 0, 0, 0, 0, 0, 6>>,
         <<230, 226, 8, 100, 119, 181, 103, 203, 107, 222, 161, 188, 86, 15, 241, 52, 81, 42, 117, 98, 11, 174, 211, 136, 89, 128, 107, 187, 119, 50, 234, 158, 243, 64, 128, 13, 85, 12, 49, 84, 87, 75, 212, 64, 73, 102, 10, 43, 181, 10, 171, 69, 87, 153, 177, 95, 247, 186, 74, 255, 220, 52, 60, 167>>>>,
      <<<<72, 101, 108, 108, 111>>, <<0, 0, 0, 0, 0, 0, 0, 16>>,
         <<130, 149, 38, 8, 66, 144, 172, 227, 95, 48, 142, 145, 36, 165, 124, 191, 232, 20, 34, 68, 3, 134, 212, 166, 10, 52, 216, 213, 169, 127, 99, 131, 240, 39, 27, 156, 101, 6, 56, 113, 195, 242, 13, 84, 90, 176, 3, 81, 97, 141, 102, 5, 160, 38, 113, 92, 89, 243, 123, 47, 132, 190, 181, 53>>>>,
      <<<<72, 101, 108, 108, 111>>, <<0, 0, 0, 0, 0, 0, 0, 29>>,
         <<35, 24, 180, 138, 45, 121, 176, 1, 188, 79, 71, 174, 109, 24, 20, 70, 8, 78, 62, 5, 51, 179, 179, 196, 93, 187, 166, 74, 216, 166, 103, 243, 55, 122, 140, 217, 146, 117, 213, 163, 34, 17, 183, 201, 227, 198, 17, 200, 59, 102, 67, 102, 124, 128, 252, 65, 240, 79, 82, 202, 16, 74, 229, 73>>>>,
      <<<<72, 101, 108, 108, 111>>, <<0, 0, 0, 0, 0, 0, 0, 33>>,
         <<180, 203, 188, 109, 81, 201, 59, 159, 234, 27, 10, 202, 15, 120, 111, 63, 234, 43, 61, 79, 21, 31, 204, 28, 41, 12, 9, 90, 124, 234, 248, 200, 79, 244, 198, 71, 6, 69, 148, 173, 250, 0, 122, 197, 185, 236, 203, 28, 230, 120, 125, 149, 171, 120, 93, 60, 92, 110, 231, 70, 25, 157, 174, 201>>>>,
      <<<<72, 101, 108, 108, 111>>, <<0, 0, 0, 0, 0, 0, 0, 66>>,
         <<191, 130, 0, 167, 148, 121, 211, 178, 141, 24, 228, 36, 170, 60, 205, 26, 255, 204, 45, 4, 59, 164, 10, 150, 243, 205, 117, 6, 113, 36, 161, 36, 195, 53, 132, 114, 74, 244, 227, 79, 183, 223, 80, 137, 50, 229, 211, 29, 143, 106, 3, 238, 92, 198, 108, 187, 161, 66, 239, 27, 37, 201, 129, 241>>>>,
      <<<<72, 101, 108, 108, 111>>, <<0, 0, 0, 0, 0, 8, 136, 136>>,
         <<217, 10, 89, 188, 196, 135, 67, 91, 72, 153, 246, 56, 20, 252, 189, 233, 109, 112, 3, 55, 221, 131, 92, 247, 158, 133, 111, 99, 147, 64, 126, 51, 231, 173, 33, 178, 190, 41, 120, 154, 51, 50, 177, 45, 251, 38, 254, 154, 104, 191, 191, 61, 234, 40, 226, 141, 251, 32, 223, 23, 181, 200, 51, 68>>>>,
      <<<<72, 101, 108, 108, 111>>, <<0, 0, 0, 0, 0, 128, 0, 6>>,
         <<141, 247, 61, 33, 16, 11, 192, 136, 97, 188, 70, 224, 80, 135, 196, 177, 94, 59, 6, 135, 99, 117, 136, 153, 140, 167, 249, 72, 80, 46, 39, 194, 85, 34, 222, 184, 107, 235, 2, 25, 109, 90, 144, 10, 12, 16, 149, 3, 237, 55, 210, 221, 249, 96, 54, 96, 19, 242, 194, 7, 157, 253, 157, 94>>>>,
      <<<<72, 101, 108, 108, 111>>, <<0, 0, 0, 0, 0, 232, 186, 58>>,
         <<27, 0, 194, 197, 95, 122, 222, 228, 141, 254, 155, 129, 190, 161, 199, 2, 185, 11, 13, 154, 46, 83, 94, 35, 170, 142, 47, 81, 14, 235, 114, 82, 14, 199, 121, 154, 114, 232, 210, 247, 21, 163, 68, 3, 157, 136, 89, 253, 106, 43, 51, 116, 22, 117, 183, 77, 50, 150, 194, 102, 56, 50, 46, 157>>>>,
      <<<<72, 101, 108, 108, 111>>, <<0, 0, 0, 0, 1, 0, 0, 13>>,
         <<15, 55, 140, 220, 13, 28, 151, 148, 114, 220, 87, 196, 218, 22, 3, 139, 60, 118, 181, 103, 205, 145, 199, 59, 222, 194, 128, 214, 29, 31, 82, 183, 134, 68, 60, 158, 111, 252, 215, 53, 178, 183, 65, 86, 234, 95, 20, 64, 31, 57, 15, 52, 207, 128, 11, 116, 188, 14, 36, 238, 154, 148, 198, 138>>>>,
      <<<<72, 101, 108, 108, 111>>, <<0, 0, 0, 0, 2, 0, 0, 26>>,
         <<43, 138, 123, 246, 217, 87, 29, 251, 118, 159, 222, 243, 64, 51, 129, 214, 127, 130, 214, 62, 43, 117, 45, 200, 137, 34, 48, 81, 158, 247, 220, 139, 145, 79, 15, 68, 121, 162, 112, 112, 69, 92, 45, 75, 26, 55, 122, 69, 10, 182, 112, 131, 82, 132, 164, 136, 170, 120, 88, 213, 106, 219, 29, 122>>>>,
      <<<<72, 101, 108, 108, 111>>, <<128, 0, 0, 0, 0, 0, 0, 0>>,
         <<65, 200, 14, 9, 16, 41, 210, 128, 94, 230, 10, 238, 201, 199, 247, 14, 46, 178, 108, 104, 200, 39, 194, 150, 104, 244, 107, 246, 79, 11, 125, 53, 145, 87, 191, 127, 94, 70, 162, 152, 152, 180, 81, 31, 147, 61, 218, 235, 117, 184, 205, 175, 123, 30, 8, 122, 60, 147, 208, 148, 57, 51, 232, 93>>>>,
      <<<<72, 101, 108, 108, 111>>, <<255, 255, 255, 255, 255, 255, 255, 255>>,
         <<177, 199, 23, 200, 144, 116, 37, 30, 104, 74, 156, 28, 30, 197, 157, 71, 236, 3, 96, 80, 64, 156, 104, 226, 13, 240, 65, 150, 141, 183, 188, 207, 132, 189, 80, 191, 80, 110, 180, 66, 87, 224, 43, 220, 186, 151, 16, 246, 157, 185, 86, 99, 196, 133, 143, 62, 116, 245, 35, 225, 150, 159, 25, 90>>>>,
      <<<<72, 101, 108, 108, 111, 33>>, <<0, 0, 0, 0, 0, 0, 0, 0>>,
         <<6, 135, 82, 133, 223, 60, 149, 71, 230, 78, 77, 129, 141, 215, 165, 162, 188, 169, 57, 136, 62, 66, 148, 240, 159, 75, 243, 22, 22, 244, 187, 93, 135, 133, 223, 200, 238, 86, 26, 175, 90, 40, 9, 157, 22, 80, 144, 181, 63, 218, 26, 88, 209, 143, 4, 120, 179, 137, 213, 123, 106, 93, 135, 235>>>>,
      <<<<72, 101, 108, 108, 111, 33>>, <<0, 0, 0, 0, 0, 0, 0, 1>>,
         <<130, 235, 74, 62, 80, 39, 242, 8, 108, 37, 219, 214, 117, 34, 8, 72, 11, 254, 18, 229, 238, 128, 106, 201, 136, 182, 71, 139, 36, 244, 208, 26, 14, 138, 17, 53, 59, 64, 208, 196, 198, 5, 222, 42, 88, 188, 95, 201, 41, 228, 242, 212, 102, 60, 131, 162, 40, 68, 76, 248, 233, 240, 78, 172>>>>,
      <<<<72, 101, 108, 108, 111, 33>>, <<0, 0, 0, 0, 0, 0, 0, 2>>,
         <<95, 52, 88, 102, 191, 51, 17, 250, 250, 117, 109, 141, 119, 78, 53, 46, 124, 186, 41, 19, 228, 106, 184, 229, 1, 61, 185, 41, 99, 161, 231, 173, 229, 162, 239, 7, 108, 92, 253, 65, 97, 151, 84, 191, 83, 181, 43, 193, 136, 55, 229, 52, 183, 95, 123, 125, 86, 34, 73, 181, 218, 84, 238, 66>>>>,
      <<<<72, 101, 108, 108, 111, 33>>, <<0, 0, 0, 0, 0, 0, 0, 3>>,
         <<116, 233, 224, 91, 76, 188, 234, 116, 68, 125, 12, 114, 111, 183, 228, 75, 226, 28, 252, 182, 232, 98, 254, 56, 200, 167, 118, 129, 214, 238, 85, 76, 76, 253, 103, 141, 219, 185, 61, 52, 120, 209, 45, 251, 226, 204, 157, 34, 122, 171, 223, 199, 152, 71, 224, 3, 22, 172, 61, 41, 161, 103, 244, 171>>>>,
      <<<<72, 101, 108, 108, 111, 33>>, <<0, 0, 0, 0, 0, 0, 0, 4>>,
         <<70, 236, 189, 44, 1, 117, 177, 225, 171, 242, 72, 123, 3, 253, 246, 195, 47, 66, 134, 106, 132, 69, 248, 247, 48, 193, 248, 68, 211, 173, 145, 231, 10, 147, 191, 57, 164, 3, 230, 247, 237, 192, 12, 148, 2, 188, 91, 26, 124, 238, 171, 113, 185, 69, 31, 55, 231, 70, 8, 224, 178, 18, 27, 149>>>>,
      <<<<72, 101, 108, 108, 111, 33>>, <<0, 0, 0, 0, 0, 0, 0, 6>>,
         <<144, 77, 50, 142, 97, 20, 184, 198, 4, 249, 109, 11, 40, 73, 17, 169, 31, 190, 154, 141, 137, 167, 6, 180, 7, 177, 19, 126, 20, 182, 209, 125, 96, 152, 18, 163, 74, 41, 32, 159, 106, 139, 144, 224, 232, 188, 167, 135, 252, 86, 52, 131, 15, 213, 73, 201, 23, 24, 151, 251, 31, 222, 109, 61>>>>,
      <<<<72, 101, 108, 108, 111, 33>>, <<0, 0, 0, 0, 0, 0, 0, 16>>,
         <<132, 127, 55, 43, 249, 26, 218, 77, 66, 42, 168, 55, 138, 228, 253, 224, 83, 68, 91, 186, 196, 33, 237, 71, 3, 29, 12, 124, 130, 172, 102, 62, 196, 181, 117, 58, 197, 250, 149, 0, 173, 26, 205, 153, 89, 162, 88, 12, 75, 251, 134, 247, 225, 145, 65, 239, 20, 161, 223, 203, 32, 56, 238, 117>>>>,
      <<<<72, 101, 108, 108, 111, 33>>, <<0, 0, 0, 0, 0, 0, 0, 29>>,
         <<12, 58, 36, 73, 234, 254, 198, 113, 209, 180, 147, 160, 178, 160, 47, 162, 146, 203, 118, 76, 250, 185, 142, 129, 115, 202, 88, 160, 221, 145, 243, 247, 241, 57, 239, 37, 179, 179, 51, 127, 220, 147, 5, 208, 69, 180, 73, 136, 23, 20, 131, 27, 32, 175, 163, 245, 111, 199, 156, 191, 84, 202, 249, 20>>>>,
      <<<<72, 101, 108, 108, 111, 33>>, <<0, 0, 0, 0, 0, 0, 0, 33>>,
         <<3, 221, 137, 186, 64, 87, 102, 76, 224, 100, 169, 90, 152, 176, 86, 233, 239, 71, 66, 215, 238, 13, 3, 241, 140, 17, 36, 192, 108, 154, 177, 184, 78, 213, 178, 41, 86, 43, 124, 58, 143, 208, 183, 40, 94, 95, 168, 178, 11, 105, 32, 216, 172, 26, 170, 185, 27, 245, 12, 102, 79, 91, 42, 10>>>>,
      <<<<72, 101, 108, 108, 111, 33>>, <<0, 0, 0, 0, 0, 0, 0, 66>>,
         <<162, 132, 219, 19, 32, 40, 181, 133, 0, 27, 135, 192, 91, 229, 93, 206, 250, 184, 251, 66, 215, 103, 170, 170, 25, 188, 79, 182, 183, 188, 182, 155, 140, 132, 12, 184, 150, 135, 255, 225, 143, 164, 134, 91, 216, 250, 28, 101, 219, 198, 23, 10, 24, 45, 94, 241, 207, 18, 152, 162, 225, 216, 42, 204>>>>,
      <<<<72, 101, 108, 108, 111, 33>>, <<0, 0, 0, 0, 0, 8, 136, 136>>,
         <<91, 199, 206, 71, 139, 167, 146, 238, 89, 141, 165, 163, 29, 5, 136, 241, 221, 116, 196, 0, 189, 49, 186, 253, 249, 232, 135, 52, 12, 173, 244, 49, 225, 123, 212, 188, 13, 45, 170, 207, 211, 188, 130, 165, 5, 4, 146, 158, 84, 31, 145, 123, 147, 72, 199, 248, 201, 145, 58, 118, 52, 26, 248, 105>>>>,
      <<<<72, 101, 108, 108, 111, 33>>, <<0, 0, 0, 0, 0, 128, 0, 6>>,
         <<5, 212, 152, 49, 203, 204, 112, 165, 234, 159, 145, 191, 91, 16, 112, 136, 136, 196, 48, 58, 183, 209, 39, 62, 89, 46, 252, 128, 83, 185, 217, 97, 57, 92, 79, 101, 49, 128, 249, 159, 228, 201, 22, 113, 180, 91, 243, 101, 227, 180, 204, 173, 230, 175, 5, 190, 127, 40, 220, 235, 207, 28, 105, 189>>>>,
      <<<<72, 101, 108, 108, 111, 33>>, <<0, 0, 0, 0, 0, 232, 186, 58>>,
         <<50, 65, 60, 142, 183, 253, 243, 144, 9, 118, 98, 92, 139, 112, 166, 95, 179, 11, 99, 227, 88, 60, 31, 126, 2, 90, 161, 48, 41, 131, 232, 214, 165, 113, 50, 222, 117, 30, 138, 18, 199, 172, 224, 117, 30, 210, 158, 3, 71, 85, 85, 208, 4, 225, 13, 203, 35, 117, 115, 96, 189, 184, 17, 114>>>>,
      <<<<72, 101, 108, 108, 111, 33>>, <<0, 0, 0, 0, 1, 0, 0, 13>>,
         <<156, 112, 166, 98, 194, 152, 13, 137, 239, 138, 63, 90, 147, 111, 208, 102, 197, 98, 126, 248, 181, 104, 91, 228, 239, 134, 200, 35, 20, 55, 2, 6, 101, 40, 34, 248, 38, 192, 99, 248, 52, 69, 106, 180, 236, 181, 6, 252, 83, 184, 82, 222, 226, 176, 14, 70, 191, 146, 254, 71, 186, 158, 3, 244>>>>,
      <<<<72, 101, 108, 108, 111, 33>>, <<0, 0, 0, 0, 2, 0, 0, 26>>,
         <<39, 236, 210, 240, 73, 8, 111, 154, 234, 19, 96, 168, 233, 165, 16, 230, 252, 17, 85, 212, 91, 211, 214, 147, 188, 122, 178, 165, 116, 28, 226, 133, 185, 9, 129, 187, 28, 241, 37, 253, 36, 9, 184, 130, 190, 199, 68, 201, 138, 245, 18, 154, 148, 164, 154, 139, 235, 101, 103, 48, 106, 175, 255, 52>>>>,
      <<<<72, 101, 108, 108, 111, 33>>, <<128, 0, 0, 0, 0, 0, 0, 0>>,
         <<33, 170, 241, 74, 182, 72, 90, 46, 212, 217, 3, 72, 75, 115, 143, 161, 118, 18, 106, 99, 53, 224, 46, 63, 12, 145, 141, 17, 171, 51, 7, 183, 245, 67, 19, 95, 208, 133, 174, 7, 109, 117, 100, 175, 244, 171, 142, 200, 117, 205, 81, 168, 251, 31, 6, 7, 64, 63, 116, 75, 123, 61, 22, 14>>>>,
      <<<<72, 101, 108, 108, 111, 33>>, <<255, 255, 255, 255, 255, 255, 255, 255>>,
         <<201, 230, 28, 204, 135, 59, 29, 188, 113, 157, 94, 218, 45, 19, 95, 55, 159, 139, 5, 232, 212, 198, 71, 110, 153, 165, 206, 204, 117, 225, 59, 200, 188, 46, 233, 170, 35, 124, 88, 242, 208, 254, 20, 162, 69, 56, 142, 143, 73, 62, 37, 217, 236, 246, 170, 24, 104, 104, 253, 145, 171, 53, 206, 223>>>>,
      <<<<83, 79, 77, 69>>, <<0, 0, 0, 0, 0, 0, 0, 0>>,
         <<149, 118, 0, 240, 189, 49, 144, 193, 164, 252, 153, 198, 67, 93, 6, 82, 92, 54, 16, 206, 143, 91, 179, 46, 212, 49, 28, 221, 5, 15, 74, 34, 219, 9, 3, 104, 88, 194, 216, 98, 191, 186, 80, 206, 5, 158, 106, 89, 70, 63, 235, 120, 203, 14, 68, 101, 61, 154, 103, 24, 139, 255, 52, 173>>>>,
      <<<<83, 79, 77, 69>>, <<0, 0, 0, 0, 0, 0, 0, 1>>,
         <<3, 129, 1, 244, 146, 251, 2, 253, 64, 170, 211, 133, 96, 57, 105, 244, 230, 190, 57, 17, 118, 167, 51, 21, 90, 247, 75, 224, 236, 138, 109, 230, 28, 210, 225, 19, 114, 22, 128, 66, 31, 12, 126, 235, 132, 199, 49, 10, 26, 79, 137, 25, 83, 216, 158, 76, 1, 84, 33, 114, 115, 131, 160, 40>>>>,
      <<<<83, 79, 77, 69>>, <<0, 0, 0, 0, 0, 0, 0, 2>>,
         <<99, 217, 226, 73, 78, 197, 110, 171, 207, 23, 214, 173, 65, 136, 116, 9, 76, 19, 42, 237, 23, 36, 131, 56, 95, 51, 53, 6, 182, 69, 252, 49, 206, 166, 136, 98, 127, 30, 189, 241, 245, 30, 158, 91, 94, 199, 205, 157, 178, 78, 10, 2, 248, 117, 16, 182, 215, 31, 190, 119, 58, 211, 212, 231>>>>,
      <<<<83, 79, 77, 69>>, <<0, 0, 0, 0, 0, 0, 0, 3>>,
         <<165, 96, 188, 83, 127, 165, 130, 44, 233, 49, 221, 42, 36, 203, 220, 87, 174, 137, 37, 166, 88, 224, 136, 12, 214, 239, 195, 79, 82, 34, 170, 220, 196, 144, 202, 202, 102, 148, 229, 116, 186, 174, 139, 253, 9, 21, 191, 248, 228, 42, 2, 91, 234, 210, 99, 118, 14, 107, 144, 189, 175, 235, 37, 18>>>>,
      <<<<83, 79, 77, 69>>, <<0, 0, 0, 0, 0, 0, 0, 4>>,
         <<39, 49, 224, 224, 221, 186, 192, 89, 50, 55, 206, 176, 61, 19, 107, 87, 59, 190, 245, 135, 214, 232, 139, 49, 67, 178, 245, 214, 222, 156, 83, 176, 198, 31, 146, 215, 173, 30, 242, 254, 129, 97, 239, 142, 45, 135, 94, 205, 223, 182, 105, 48, 45, 181, 96, 2, 198, 132, 91, 235, 237, 105, 152, 178>>>>,
      <<<<83, 79, 77, 69>>, <<0, 0, 0, 0, 0, 0, 0, 5>>,
         <<235, 163, 155, 29, 20, 40, 61, 124, 173, 253, 30, 77, 176, 131, 116, 43, 6, 20, 27, 117, 243, 201, 47, 168, 85, 167, 237, 199, 80, 145, 199, 66, 216, 244, 43, 73, 226, 55, 175, 11, 160, 193, 164, 153, 255, 178, 79, 109, 121, 28, 84, 160, 187, 147, 134, 204, 155, 53, 186, 214, 104, 198, 139, 177>>>>,
      <<<<83, 79, 77, 69>>, <<0, 0, 0, 0, 0, 0, 0, 6>>,
         <<171, 213, 21, 185, 130, 151, 225, 240, 106, 175, 35, 20, 17, 54, 247, 161, 98, 230, 72, 172, 49, 12, 76, 101, 228, 184, 16, 44, 251, 178, 35, 123, 158, 41, 140, 233, 219, 169, 52, 68, 72, 94, 215, 212, 193, 168, 208, 176, 252, 224, 212, 176, 17, 144, 117, 211, 239, 158, 169, 147, 121, 130, 74, 63>>>>,
      <<<<83, 79, 77, 69>>, <<0, 0, 0, 0, 0, 0, 0, 7>>,
         <<65, 48, 194, 188, 25, 12, 111, 80, 199, 100, 181, 163, 0, 69, 217, 237, 88, 183, 24, 91, 191, 46, 16, 48, 85, 151, 134, 169, 204, 112, 78, 94, 69, 224, 4, 252, 43, 205, 24, 225, 34, 194, 2, 72, 82, 195, 45, 7, 59, 1, 192, 74, 208, 24, 159, 220, 75, 113, 235, 29, 12, 110, 46, 92>>>>,
      <<<<83, 79, 77, 69>>, <<0, 0, 0, 0, 0, 0, 0, 8>>,
         <<183, 255, 17, 203, 107, 137, 200, 250, 176, 77, 184, 246, 178, 57, 89, 149, 100, 64, 239, 208, 238, 83, 232, 211, 210, 178, 69, 73, 214, 233, 10, 63, 64, 122, 141, 48, 61, 90, 200, 120, 146, 16, 174, 211, 108, 194, 226, 96, 174, 203, 192, 69, 135, 201, 18, 196, 167, 27, 18, 10, 91, 88, 235, 122>>>>,
      <<<<83, 79, 77, 69>>, <<0, 0, 0, 0, 0, 0, 0, 9>>,
         <<195, 186, 225, 250, 89, 222, 51, 34, 238, 87, 32, 42, 29, 80, 67, 207, 36, 153, 126, 55, 210, 178, 134, 187, 178, 65, 250, 6, 178, 14, 85, 135, 154, 7, 148, 128, 98, 51, 235, 204, 109, 15, 31, 149, 16, 249, 249, 133, 152, 138, 112, 13, 109, 32, 31, 57, 70, 6, 180, 39, 200, 71, 1, 207>>>>,
      <<<<83, 79, 77, 69>>, <<0, 0, 0, 0, 0, 0, 0, 10>>,
         <<246, 174, 163, 209, 252, 222, 50, 9, 115, 104, 155, 242, 161, 146, 73, 141, 216, 167, 85, 198, 141, 48, 90, 216, 126, 60, 193, 223, 9, 58, 44, 120, 100, 117, 144, 160, 108, 123, 253, 56, 110, 234, 130, 190, 172, 68, 103, 45, 127, 147, 217, 33, 165, 219, 44, 102, 21, 233, 125, 204, 114, 178, 9, 134>>>>,
      <<<<83, 79, 77, 69>>, <<0, 0, 0, 0, 0, 0, 0, 11>>,
         <<56, 77, 42, 209, 196, 73, 251, 240, 197, 202, 241, 11, 69, 84, 163, 40, 120, 151, 98, 180, 134, 232, 90, 197, 148, 153, 221, 21, 27, 142, 8, 102, 77, 184, 178, 244, 55, 167, 184, 142, 117, 107, 66, 135, 1, 229, 252, 252, 30, 36, 249, 161, 68, 177, 170, 91, 130, 185, 184, 79, 89, 55, 25, 143>>>>,
      <<<<83, 79, 77, 69>>, <<0, 0, 0, 0, 0, 0, 0, 12>>,
         <<68, 16, 85, 136, 199, 106, 100, 16, 110, 168, 230, 222, 29, 253, 98, 26, 187, 147, 144, 107, 164, 57, 230, 105, 94, 194, 40, 41, 27, 12, 180, 211, 8, 154, 150, 19, 62, 90, 240, 70, 114, 101, 153, 173, 222, 148, 97, 68, 130, 200, 203, 183, 113, 152, 140, 3, 105, 226, 127, 69, 241, 224, 89, 184>>>>,
      <<<<83, 79, 77, 69>>, <<0, 0, 0, 0, 0, 0, 0, 13>>,
         <<65, 155, 144, 70, 57, 115, 177, 47, 181, 160, 238, 34, 168, 216, 252, 37, 71, 228, 106, 126, 144, 64, 148, 134, 225, 80, 234, 211, 202, 13, 174, 237, 20, 0, 184, 201, 85, 138, 166, 208, 163, 74, 221, 2, 10, 193, 124, 132, 141, 218, 8, 72, 116, 159, 101, 23, 226, 154, 10, 43, 29, 88, 131, 158>>>>,
      <<<<83, 79, 77, 69>>, <<0, 0, 0, 0, 0, 0, 0, 14>>,
         <<131, 29, 240, 120, 34, 31, 96, 89, 43, 142, 58, 60, 151, 108, 4, 225, 253, 253, 0, 154, 62, 95, 33, 23, 192, 247, 45, 109, 9, 12, 47, 17, 162, 91, 8, 18, 149, 67, 127, 248, 84, 191, 104, 199, 189, 0, 75, 125, 46, 39, 157, 35, 180, 177, 73, 210, 230, 234, 209, 108, 141, 90, 246, 58>>>>,
      <<<<83, 79, 77, 69>>, <<0, 0, 0, 0, 0, 0, 0, 15>>,
         <<215, 129, 155, 214, 147, 4, 146, 97, 127, 29, 90, 82, 247, 70, 144, 212, 22, 56, 189, 122, 8, 68, 73, 147, 208, 29, 70, 3, 212, 131, 169, 27, 165, 213, 141, 123, 174, 122, 226, 81, 109, 93, 115, 126, 106, 150, 221, 124, 254, 219, 91, 189, 222, 171, 217, 188, 127, 220, 182, 122, 37, 149, 128, 245>>>>,
      <<<<83, 79, 77, 69>>, <<0, 0, 0, 0, 0, 0, 0, 16>>,
         <<124, 106, 33, 68, 251, 163, 184, 119, 246, 76, 139, 98, 134, 54, 186, 78, 103, 242, 217, 165, 80, 125, 17, 135, 8, 4, 104, 56, 192, 56, 125, 190, 99, 245, 45, 2, 200, 227, 136, 166, 109, 254, 224, 227, 143, 27, 22, 124, 187, 13, 6, 14, 169, 175, 12, 25, 206, 247, 32, 230, 154, 139, 170, 19>>>>,
      <<<<83, 79, 77, 69>>, <<0, 0, 0, 0, 0, 0, 0, 17>>,
         <<158, 64, 216, 172, 213, 90, 17, 192, 9, 13, 44, 155, 80, 111, 10, 24, 63, 201, 51, 53, 15, 95, 115, 250, 51, 252, 155, 13, 218, 210, 230, 43, 187, 193, 202, 5, 77, 8, 67, 127, 86, 83, 233, 105, 33, 88, 154, 26, 158, 236, 131, 206, 34, 94, 147, 71, 175, 7, 244, 6, 8, 51, 178, 214>>>>,
      <<<<83, 79, 77, 69>>, <<0, 0, 0, 0, 0, 0, 0, 18>>,
         <<117, 174, 173, 76, 182, 36, 9, 73, 58, 108, 189, 64, 203, 24, 96, 119, 127, 185, 191, 224, 208, 30, 162, 67, 239, 46, 245, 60, 97, 211, 192, 65, 106, 196, 91, 4, 120, 228, 36, 21, 145, 115, 229, 70, 170, 171, 158, 144, 200, 41, 8, 208, 50, 252, 188, 255, 68, 223, 124, 93, 74, 2, 151, 49>>>>,
      <<<<83, 79, 77, 69>>, <<0, 0, 0, 0, 0, 0, 0, 19>>,
         <<46, 85, 222, 74, 24, 221, 235, 85, 100, 165, 1, 182, 113, 12, 27, 248, 198, 59, 249, 104, 224, 9, 113, 154, 67, 151, 112, 183, 10, 148, 188, 243, 85, 129, 239, 244, 243, 166, 160, 141, 138, 90, 9, 232, 208, 203, 36, 112, 47, 55, 181, 209, 44, 54, 235, 227, 221, 218, 158, 76, 104, 172, 209, 84>>>>,
      <<<<83, 79, 77, 69>>, <<0, 0, 0, 0, 0, 0, 0, 20>>,
         <<124, 14, 211, 178, 94, 103, 44, 248, 134, 130, 174, 120, 33, 221, 255, 138, 62, 241, 244, 116, 226, 103, 60, 62, 24, 237, 156, 244, 180, 248, 240, 169, 14, 177, 254, 3, 103, 115, 207, 158, 1, 158, 25, 253, 195, 220, 62, 15, 217, 162, 152, 242, 109, 204, 8, 174, 93, 86, 78, 49, 235, 87, 120, 75>>>>,
      <<<<83, 79, 77, 69>>, <<0, 0, 0, 0, 0, 0, 0, 21>>,
         <<81, 10, 118, 70, 3, 236, 160, 38, 12, 22, 12, 84, 218, 85, 144, 51, 245, 54, 225, 215, 187, 211, 236, 188, 133, 33, 216, 178, 92, 152, 179, 58, 224, 150, 60, 113, 170, 147, 131, 136, 250, 129, 146, 85, 46, 110, 164, 240, 228, 76, 249, 214, 174, 133, 181, 140, 186, 32, 160, 199, 227, 140, 65, 139>>>>,
      <<<<83, 79, 77, 69>>, <<0, 0, 0, 0, 0, 0, 0, 22>>,
         <<156, 134, 201, 231, 255, 86, 77, 86, 58, 180, 9, 8, 80, 8, 118, 71, 74, 80, 102, 79, 234, 180, 167, 123, 97, 156, 12, 235, 55, 243, 73, 94, 139, 236, 233, 97, 76, 36, 92, 173, 205, 89, 229, 10, 149, 200, 17, 129, 223, 159, 43, 160, 162, 40, 84, 250, 158, 78, 165, 182, 46, 149, 236, 136>>>>,
      <<<<83, 79, 77, 69>>, <<0, 0, 0, 0, 0, 0, 0, 23>>,
         <<70, 142, 113, 186, 96, 81, 251, 137, 131, 123, 72, 26, 11, 102, 184, 161, 184, 103, 230, 186, 50, 193, 136, 224, 178, 124, 3, 26, 191, 222, 17, 203, 189, 197, 240, 79, 239, 51, 23, 19, 30, 234, 59, 122, 59, 70, 100, 192, 31, 27, 139, 101, 147, 123, 176, 2, 215, 13, 222, 22, 69, 176, 15, 153>>>>,
      <<<<83, 79, 77, 69>>, <<0, 0, 0, 0, 0, 0, 0, 24>>,
         <<5, 190, 245, 175, 252, 54, 192, 244, 36, 227, 209, 199, 78, 79, 205, 163, 207, 156, 104, 87, 150, 213, 202, 4, 25, 101, 10, 86, 25, 155, 108, 4, 36, 9, 213, 71, 120, 222, 129, 217, 212, 149, 106, 95, 157, 126, 133, 138, 249, 56, 228, 114, 6, 92, 25, 211, 216, 66, 206, 196, 30, 67, 128, 84>>>>,
      <<<<83, 79, 77, 69>>, <<0, 0, 0, 0, 0, 0, 0, 25>>,
         <<166, 248, 171, 13, 167, 24, 216, 204, 115, 0, 17, 21, 107, 15, 105, 219, 252, 119, 29, 247, 232, 146, 254, 10, 82, 103, 32, 89, 5, 75, 102, 137, 23, 156, 204, 1, 136, 230, 172, 177, 119, 254, 52, 134, 213, 60, 33, 49, 234, 39, 248, 74, 172, 252, 124, 74, 213, 129, 176, 162, 208, 145, 82, 59>>>>,
      <<<<83, 79, 77, 69>>, <<0, 0, 0, 0, 0, 0, 0, 26>>,
         <<18, 12, 69, 245, 176, 171, 178, 239, 71, 84, 142, 20, 177, 62, 99, 114, 230, 111, 175, 156, 43, 255, 22, 106, 102, 107, 39, 60, 15, 195, 63, 198, 232, 249, 55, 25, 77, 185, 224, 38, 63, 17, 23, 181, 130, 92, 114, 190, 117, 104, 207, 3, 18, 213, 178, 100, 58, 197, 193, 79, 106, 64, 128, 180>>>>,
      <<<<83, 79, 77, 69>>, <<0, 0, 0, 0, 0, 0, 0, 27>>,
         <<114, 106, 167, 252, 163, 235, 89, 204, 59, 125, 2, 67, 26, 242, 223, 232, 198, 216, 36, 4, 107, 0, 141, 178, 25, 179, 170, 120, 42, 189, 52, 30, 221, 126, 102, 6, 229, 131, 120, 44, 248, 231, 22, 253, 29, 169, 72, 127, 70, 45, 94, 219, 236, 98, 191, 179, 56, 19, 101, 138, 16, 88, 122, 195>>>>,
      <<<<83, 79, 77, 69>>, <<0, 0, 0, 0, 0, 0, 0, 28>>,
         <<125, 212, 83, 177, 175, 130, 4, 57, 62, 246, 110, 109, 189, 11, 27, 185, 23, 140, 118, 132, 58, 186, 205, 128, 65, 117, 12, 55, 86, 63, 206, 171, 180, 196, 105, 17, 55, 146, 212, 241, 16, 83, 175, 119, 222, 182, 134, 182, 93, 219, 254, 213, 204, 237, 203, 139, 63, 51, 184, 6, 235, 34, 149, 106>>>>,
      <<<<83, 79, 77, 69>>, <<0, 0, 0, 0, 0, 0, 0, 29>>,
         <<22, 172, 230, 121, 91, 38, 130, 68, 140, 215, 184, 98, 194, 52, 113, 252, 237, 136, 55, 117, 171, 21, 193, 51, 244, 53, 113, 38, 97, 60, 74, 204, 22, 188, 228, 163, 216, 48, 191, 35, 4, 82, 170, 217, 183, 211, 198, 23, 73, 232, 128, 16, 8, 31, 37, 109, 170, 190, 209, 227, 156, 159, 237, 144>>>>,
      <<<<83, 79, 77, 69>>, <<0, 0, 0, 0, 0, 0, 0, 30>>,
         <<48, 31, 247, 6, 76, 49, 55, 29, 249, 161, 228, 223, 80, 208, 2, 135, 51, 82, 222, 248, 116, 176, 91, 162, 30, 192, 251, 8, 113, 25, 140, 232, 234, 55, 67, 162, 186, 2, 147, 134, 248, 47, 34, 250, 222, 66, 128, 169, 137, 87, 195, 222, 196, 99, 203, 206, 51, 108, 33, 196, 35, 241, 105, 59>>>>,
      <<<<83, 79, 77, 69>>, <<0, 0, 0, 0, 0, 0, 0, 31>>,
         <<90, 77, 159, 38, 77, 81, 93, 173, 41, 233, 174, 84, 123, 212, 110, 107, 77, 119, 128, 97, 242, 22, 30, 219, 127, 111, 90, 211, 35, 113, 228, 105, 107, 202, 244, 174, 17, 90, 9, 220, 210, 25, 33, 38, 214, 206, 101, 247, 116, 64, 214, 3, 110, 10, 159, 162, 241, 152, 102, 100, 7, 238, 104, 6>>>>,
      <<<<83, 79, 77, 69>>, <<0, 0, 0, 0, 0, 0, 0, 32>>,
         <<192, 14, 28, 133, 213, 39, 136, 160, 29, 131, 138, 233, 253, 160, 187, 94, 167, 104, 97, 104, 236, 94, 165, 131, 183, 100, 88, 151, 211, 11, 147, 95, 28, 212, 152, 200, 31, 95, 202, 128, 25, 238, 209, 7, 226, 57, 247, 38, 58, 74, 100, 172, 140, 208, 40, 225, 170, 123, 159, 7, 28, 251, 238, 20>>>>,
      <<<<83, 79, 77, 69>>, <<0, 0, 0, 0, 0, 0, 0, 33>>,
         <<141, 239, 98, 44, 217, 209, 98, 92, 126, 159, 62, 131, 78, 67, 184, 142, 204, 88, 225, 202, 243, 156, 157, 60, 111, 33, 188, 92, 247, 43, 44, 232, 115, 221, 141, 77, 167, 158, 131, 238, 133, 50, 235, 4, 205, 243, 233, 10, 232, 136, 40, 78, 218, 123, 139, 171, 35, 1, 226, 91, 247, 102, 162, 190>>>>,
      <<<<83, 79, 77, 69>>, <<0, 0, 0, 0, 0, 0, 0, 34>>,
         <<189, 109, 49, 127, 218, 152, 187, 103, 189, 225, 133, 41, 32, 239, 175, 208, 218, 147, 97, 91, 97, 190, 196, 169, 7, 235, 12, 240, 105, 181, 255, 123, 243, 25, 111, 109, 70, 29, 159, 72, 145, 59, 29, 103, 204, 209, 8, 73, 103, 65, 189, 101, 72, 149, 1, 7, 228, 237, 12, 94, 168, 157, 151, 158>>>>,
      <<<<83, 79, 77, 69>>, <<0, 0, 0, 0, 0, 0, 0, 35>>,
         <<63, 104, 86, 143, 225, 49, 194, 142, 7, 168, 77, 26, 93, 124, 97, 206, 77, 155, 241, 105, 104, 81, 108, 247, 94, 21, 28, 3, 202, 174, 244, 36, 76, 140, 233, 45, 96, 135, 85, 246, 62, 86, 237, 144, 66, 1, 186, 146, 115, 190, 27, 96, 239, 81, 174, 199, 191, 225, 64, 45, 221, 189, 220, 23>>>>,
      <<<<83, 79, 77, 69>>, <<0, 0, 0, 0, 0, 0, 0, 36>>,
         <<14, 49, 93, 183, 255, 17, 8, 233, 29, 65, 84, 32, 32, 92, 244, 165, 26, 61, 114, 123, 181, 231, 226, 109, 59, 90, 90, 136, 146, 187, 229, 24, 21, 173, 37, 128, 48, 83, 35, 56, 205, 247, 137, 114, 219, 177, 23, 79, 102, 171, 254, 193, 227, 49, 15, 139, 5, 226, 158, 79, 166, 141, 71, 95>>>>,
      <<<<83, 79, 77, 69>>, <<0, 0, 0, 0, 0, 0, 0, 37>>,
         <<163, 27, 50, 166, 120, 177, 248, 56, 51, 158, 179, 50, 121, 22, 50, 103, 179, 82, 44, 234, 186, 136, 5, 191, 152, 228, 83, 166, 163, 240, 45, 250, 196, 72, 97, 59, 195, 197, 220, 202, 223, 244, 106, 105, 223, 3, 221, 4, 18, 244, 118, 34, 63, 109, 130, 8, 172, 182, 136, 108, 134, 9, 9, 183>>>>,
      <<<<83, 79, 77, 69>>, <<0, 0, 0, 0, 0, 0, 0, 38>>,
         <<242, 197, 14, 128, 198, 178, 205, 68, 139, 239, 233, 169, 198, 80, 22, 93, 141, 0, 211, 132, 122, 39, 5, 12, 11, 121, 37, 172, 72, 140, 223, 102, 237, 102, 25, 237, 55, 94, 245, 142, 78, 33, 250, 228, 184, 26, 143, 214, 5, 152, 195, 228, 9, 251, 169, 29, 146, 77, 237, 138, 53, 175, 91, 225>>>>,
      <<<<83, 79, 77, 69>>, <<0, 0, 0, 0, 0, 0, 0, 39>>,
         <<123, 86, 140, 161, 38, 228, 212, 174, 164, 58, 119, 17, 203, 136, 174, 85, 135, 204, 23, 39, 150, 247, 64, 148, 128, 220, 234, 158, 85, 209, 142, 184, 7, 61, 75, 37, 209, 125, 209, 37, 224, 91, 74, 241, 66, 172, 0, 246, 158, 181, 252, 131, 166, 83, 39, 69, 16, 167, 133, 206, 136, 177, 70, 117>>>>,
      <<<<83, 79, 77, 69>>, <<0, 0, 0, 0, 0, 0, 0, 40>>,
         <<23, 149, 217, 201, 148, 74, 150, 11, 220, 243, 65, 181, 34, 79, 237, 174, 81, 177, 199, 215, 113, 106, 118, 20, 162, 251, 76, 191, 32, 107, 81, 56, 91, 72, 122, 119, 221, 161, 43, 98, 109, 80, 42, 47, 176, 32, 174, 92, 194, 119, 7, 223, 119, 96, 186, 163, 103, 254, 229, 47, 70, 115, 244, 103>>>>,
      <<<<83, 79, 77, 69>>, <<0, 0, 0, 0, 0, 0, 0, 41>>,
         <<34, 249, 78, 206, 119, 17, 9, 242, 186, 38, 130, 110, 197, 14, 74, 38, 192, 48, 112, 114, 9, 153, 91, 197, 232, 208, 20, 217, 52, 60, 140, 92, 217, 130, 67, 246, 233, 24, 82, 76, 1, 5, 190, 191, 58, 101, 118, 48, 169, 223, 199, 211, 232, 209, 47, 223, 205, 221, 45, 250, 4, 28, 145, 103>>>>,
      <<<<83, 79, 77, 69>>, <<0, 0, 0, 0, 0, 0, 0, 42>>,
         <<152, 115, 250, 205, 73, 199, 101, 215, 130, 84, 220, 20, 220, 59, 23, 174, 191, 96, 246, 107, 121, 183, 149, 208, 153, 51, 161, 35, 63, 165, 89, 251, 133, 138, 166, 228, 22, 3, 115, 247, 191, 190, 45, 225, 186, 20, 176, 184, 0, 13, 230, 4, 60, 165, 0, 84, 206, 136, 12, 17, 19, 211, 64, 153>>>>,
      <<<<83, 79, 77, 69>>, <<0, 0, 0, 0, 0, 0, 0, 43>>,
         <<190, 74, 236, 152, 79, 98, 107, 144, 85, 15, 111, 187, 180, 31, 219, 181, 206, 120, 75, 254, 104, 177, 173, 13, 62, 143, 243, 187, 136, 155, 176, 140, 155, 0, 49, 30, 35, 98, 241, 108, 23, 254, 231, 193, 94, 172, 110, 223, 95, 91, 88, 57, 245, 171, 41, 220, 33, 142, 61, 173, 137, 49, 128, 153>>>>,
      <<<<83, 79, 77, 69>>, <<0, 0, 0, 0, 0, 0, 0, 44>>,
         <<55, 207, 98, 55, 4, 197, 192, 124, 60, 17, 194, 226, 124, 125, 82, 62, 35, 196, 152, 175, 199, 187, 113, 83, 245, 166, 84, 63, 102, 73, 156, 246, 161, 42, 30, 219, 94, 248, 29, 188, 156, 195, 179, 171, 239, 107, 70, 145, 236, 49, 158, 48, 207, 132, 31, 234, 16, 168, 178, 217, 77, 117, 117, 122>>>>,
      <<<<83, 79, 77, 69>>, <<0, 0, 0, 0, 0, 0, 0, 45>>,
         <<243, 50, 36, 239, 201, 121, 101, 60, 135, 64, 240, 224, 91, 163, 212, 113, 241, 1, 111, 165, 24, 104, 62, 25, 135, 56, 120, 226, 73, 89, 221, 147, 114, 223, 170, 251, 161, 48, 19, 92, 121, 198, 240, 5, 204, 206, 47, 230, 47, 67, 234, 89, 68, 243, 54, 86, 9, 72, 234, 72, 20, 177, 41, 249>>>>,
      <<<<83, 79, 77, 69>>, <<0, 0, 0, 0, 0, 0, 0, 46>>,
         <<0, 146, 159, 32, 150, 204, 144, 235, 39, 252, 204, 118, 253, 49, 180, 80, 15, 87, 165, 237, 115, 176, 41, 104, 55, 212, 171, 215, 21, 96, 248, 0, 228, 126, 119, 148, 146, 100, 34, 109, 60, 80, 49, 194, 122, 5, 247, 159, 159, 188, 213, 210, 40, 147, 76, 208, 4, 165, 132, 86, 39, 226, 76, 169>>>>,
      <<<<83, 79, 77, 69>>, <<0, 0, 0, 0, 0, 0, 0, 47>>,
         <<91, 87, 53, 44, 34, 9, 111, 42, 144, 127, 124, 77, 183, 89, 197, 84, 254, 251, 44, 189, 26, 103, 167, 124, 160, 211, 213, 75, 98, 115, 219, 211, 252, 238, 147, 76, 232, 61, 23, 107, 94, 230, 229, 78, 92, 230, 56, 255, 246, 12, 163, 12, 80, 224, 78, 193, 12, 245, 4, 68, 79, 249, 100, 26>>>>,
      <<<<83, 79, 77, 69>>, <<0, 0, 0, 0, 0, 0, 0, 48>>,
         <<111, 199, 72, 215, 91, 230, 11, 4, 138, 193, 129, 249, 134, 174, 201, 24, 245, 71, 160, 210, 56, 193, 110, 2, 219, 153, 69, 209, 50, 124, 206, 4, 176, 68, 33, 211, 163, 4, 112, 225, 232, 129, 174, 226, 60, 147, 99, 197, 179, 244, 164, 58, 32, 28, 66, 67, 254, 28, 17, 249, 217, 150, 92, 229>>>>,
      <<<<83, 79, 77, 69>>, <<0, 0, 0, 0, 0, 0, 0, 49>>,
         <<99, 131, 232, 124, 196, 176, 25, 32, 29, 240, 110, 237, 133, 61, 76, 157, 135, 37, 152, 57, 218, 211, 162, 175, 89, 203, 76, 218, 156, 2, 122, 253, 157, 253, 248, 5, 219, 130, 96, 213, 227, 234, 122, 0, 20, 249, 28, 212, 190, 216, 63, 103, 223, 244, 208, 161, 224, 197, 249, 1, 157, 85, 172, 173>>>>,
      <<<<83, 79, 77, 69>>, <<0, 0, 0, 0, 0, 0, 0, 50>>,
         <<239, 213, 102, 95, 132, 63, 148, 58, 123, 123, 43, 34, 182, 118, 38, 118, 89, 122, 129, 179, 62, 111, 24, 86, 33, 21, 22, 151, 14, 11, 162, 205, 55, 187, 66, 60, 173, 138, 81, 213, 200, 225, 152, 154, 240, 149, 233, 43, 40, 221, 130, 107, 94, 224, 92, 27, 86, 115, 31, 108, 160, 235, 207, 251>>>>,
      <<<<83, 79, 77, 69>>, <<0, 0, 0, 0, 0, 0, 0, 51>>,
         <<194, 181, 249, 19, 110, 152, 140, 211, 82, 234, 115, 67, 148, 48, 48, 249, 131, 0, 87, 51, 10, 235, 37, 175, 135, 169, 207, 110, 218, 172, 157, 122, 137, 20, 202, 174, 143, 98, 58, 111, 233, 163, 47, 230, 239, 165, 129, 100, 68, 27, 5, 249, 233, 43, 131, 142, 247, 239, 234, 181, 239, 46, 35, 103>>>>,
      <<<<83, 79, 77, 69>>, <<0, 0, 0, 0, 0, 0, 0, 52>>,
         <<115, 20, 229, 60, 141, 107, 11, 220, 120, 127, 5, 196, 120, 247, 154, 135, 56, 135, 152, 34, 6, 212, 195, 50, 147, 101, 160, 65, 244, 69, 232, 63, 189, 48, 81, 66, 188, 250, 135, 226, 119, 209, 133, 105, 90, 169, 35, 0, 220, 98, 5, 229, 56, 156, 16, 151, 254, 36, 140, 24, 67, 187, 52, 69>>>>,
      <<<<83, 79, 77, 69>>, <<0, 0, 0, 0, 0, 0, 0, 53>>,
         <<120, 13, 24, 20, 242, 182, 222, 214, 88, 77, 235, 196, 246, 75, 111, 20, 225, 235, 104, 202, 122, 144, 28, 161, 34, 191, 227, 59, 152, 79, 140, 172, 25, 234, 120, 116, 95, 92, 124, 32, 50, 226, 15, 207, 36, 192, 192, 50, 131, 41, 220, 78, 86, 167, 200, 250, 80, 211, 95, 47, 47, 221, 1, 43>>>>,
      <<<<83, 79, 77, 69>>, <<0, 0, 0, 0, 0, 0, 0, 54>>,
         <<189, 201, 82, 187, 140, 137, 128, 126, 201, 123, 35, 248, 191, 133, 106, 52, 125, 71, 20, 18, 242, 74, 96, 14, 139, 178, 229, 215, 11, 69, 200, 91, 11, 88, 183, 88, 110, 132, 204, 213, 132, 132, 81, 69, 199, 160, 164, 80, 160, 66, 115, 93, 57, 203, 204, 70, 159, 126, 169, 251, 190, 9, 33, 79>>>>,
      <<<<83, 79, 77, 69>>, <<0, 0, 0, 0, 0, 0, 0, 55>>,
         <<126, 81, 8, 225, 121, 86, 148, 182, 222, 161, 168, 206, 208, 96, 87, 153, 31, 230, 66, 226, 39, 69, 49, 51, 155, 229, 195, 57, 234, 200, 31, 89, 72, 196, 114, 129, 76, 20, 232, 70, 164, 246, 200, 192, 161, 76, 189, 106, 225, 134, 181, 130, 47, 252, 161, 70, 106, 101, 76, 126, 167, 113, 117, 241>>>>,
      <<<<83, 79, 77, 69>>, <<0, 0, 0, 0, 0, 0, 0, 66>>,
         <<44, 166, 20, 196, 49, 103, 139, 107, 106, 108, 101, 250, 22, 49, 28, 222, 6, 102, 124, 126, 219, 96, 6, 248, 45, 48, 36, 14, 175, 49, 187, 239, 87, 188, 225, 10, 211, 83, 152, 158, 145, 25, 44, 1, 67, 200, 253, 147, 249, 39, 245, 166, 126, 163, 214, 87, 128, 118, 97, 222, 223, 238, 94, 210>>>>,
      <<<<83, 79, 77, 69>>, <<0, 0, 0, 0, 0, 1, 226, 64>>,
         <<37, 167, 159, 88, 191, 20, 176, 203, 125, 179, 0, 53, 110, 163, 1, 64, 186, 216, 239, 15, 122, 150, 225, 117, 235, 238, 210, 80, 187, 175, 93, 86, 102, 242, 156, 161, 131, 44, 117, 124, 5, 159, 167, 3, 80, 124, 107, 19, 172, 137, 195, 44, 150, 34, 110, 32, 152, 117, 110, 72, 252, 213, 222, 145>>>>,
      <<<<83, 79, 77, 69>>, <<0, 0, 0, 0, 0, 8, 136, 136>>,
         <<71, 245, 125, 7, 75, 12, 216, 96, 147, 18, 85, 64, 200, 245, 195, 79, 234, 13, 109, 137, 90, 52, 64, 86, 72, 139, 251, 37, 110, 197, 119, 116, 3, 124, 234, 23, 171, 236, 29, 8, 21, 204, 149, 117, 171, 120, 242, 202, 101, 226, 58, 225, 242, 95, 24, 174, 81, 195, 89, 23, 170, 223, 18, 151>>>>,
      <<<<83, 79, 77, 69>>, <<0, 0, 0, 0, 0, 128, 0, 6>>,
         <<244, 120, 83, 208, 89, 131, 229, 104, 212, 195, 174, 227, 37, 176, 49, 62, 63, 219, 101, 195, 134, 43, 131, 209, 133, 180, 12, 214, 194, 54, 43, 133, 102, 114, 232, 248, 229, 85, 105, 244, 21, 29, 128, 220, 221, 173, 117, 189, 107, 170, 139, 165, 181, 97, 5, 3, 7, 142, 48, 1, 199, 78, 119, 155>>>>,
      <<<<83, 79, 77, 69>>, <<0, 0, 0, 0, 0, 232, 186, 58>>,
         <<217, 27, 42, 104, 223, 79, 24, 213, 113, 120, 142, 51, 2, 92, 217, 230, 229, 226, 84, 183, 99, 139, 146, 187, 163, 15, 105, 46, 95, 240, 179, 66, 15, 103, 232, 42, 242, 196, 55, 55, 68, 151, 41, 235, 46, 176, 179, 147, 47, 233, 75, 200, 196, 129, 222, 43, 189, 21, 205, 68, 86, 81, 143, 16>>>>,
      <<<<83, 79, 77, 69>>, <<0, 0, 0, 0, 1, 0, 0, 13>>,
         <<76, 131, 252, 177, 200, 59, 124, 27, 241, 186, 70, 127, 119, 77, 32, 254, 213, 179, 70, 226, 22, 254, 39, 187, 104, 164, 24, 119, 124, 78, 125, 213, 111, 250, 93, 139, 25, 186, 53, 75, 14, 31, 196, 1, 7, 14, 17, 199, 195, 0, 51, 155, 54, 10, 130, 44, 54, 229, 236, 158, 23, 120, 103, 34>>>>,
      <<<<83, 79, 77, 69>>, <<0, 0, 0, 0, 2, 0, 0, 26>>,
         <<41, 136, 6, 27, 212, 98, 78, 236, 122, 157, 155, 136, 28, 173, 78, 45, 65, 187, 110, 191, 22, 12, 143, 189, 78, 187, 193, 222, 116, 48, 174, 65, 143, 156, 200, 116, 223, 169, 236, 252, 142, 122, 173, 183, 222, 209, 34, 126, 33, 127, 43, 50, 9, 11, 154, 16, 187, 221, 246, 193, 62, 41, 156, 63>>>>,
      <<<<83, 79, 77, 69>>, <<128, 0, 0, 0, 0, 0, 0, 0>>,
         <<189, 13, 123, 98, 214, 254, 12, 182, 85, 80, 20, 244, 127, 107, 248, 10, 31, 142, 60, 31, 184, 232, 161, 103, 195, 222, 174, 21, 200, 103, 66, 208, 239, 50, 213, 115, 149, 108, 54, 143, 83, 147, 71, 6, 18, 100, 143, 40, 66, 150, 41, 47, 41, 105, 112, 191, 119, 168, 19, 89, 184, 68, 117, 47>>>>,
      <<<<83, 79, 77, 69>>, <<255, 255, 255, 255, 255, 255, 255, 255>>,
         <<129, 42, 183, 131, 81, 84, 232, 58, 110, 20, 155, 161, 235, 197, 188, 194, 10, 131, 220, 44, 2, 51, 216, 144, 64, 182, 208, 202, 188, 138, 101, 206, 68, 8, 158, 170, 155, 208, 42, 86, 171, 152, 144, 49, 53, 186, 110, 192, 188, 210, 144, 46, 85, 11, 95, 168, 42, 139, 58, 75, 65, 128, 144, 249>>>>,
      <<<<83, 79, 77, 69, 95, 83, 69, 67, 82, 69, 84>>, <<0, 0, 0, 0, 0, 0, 0, 0>>,
         <<98, 139, 10, 194, 204, 240, 144, 240, 196, 225, 140, 84, 91, 187, 225, 170, 12, 113, 254, 142, 248, 157, 210, 213, 191, 198, 234, 218, 38, 53, 219, 194, 8, 250, 170, 4, 50, 134, 102, 152, 120, 181, 246, 16, 16, 105, 235, 21, 215, 186, 17, 26, 2, 96, 220, 166, 107, 93, 198, 236, 186, 86, 163, 123>>>>,
      <<<<83, 79, 77, 69, 95, 83, 69, 67, 82, 69, 84>>, <<0, 0, 0, 0, 0, 0, 0, 1>>,
         <<102, 87, 171, 125, 82, 234, 218, 151, 118, 105, 200, 156, 253, 168, 50, 106, 175, 218, 64, 137, 158, 186, 185, 242, 159, 113, 238, 22, 124, 225, 66, 1, 142, 122, 148, 130, 47, 210, 165, 108, 176, 153, 190, 52, 170, 241, 161, 173, 68, 134, 94, 110, 141, 153, 71, 173, 138, 209, 100, 3, 49, 190, 36, 119>>>>,
      <<<<83, 79, 77, 69, 95, 83, 69, 67, 82, 69, 84>>, <<0, 0, 0, 0, 0, 0, 0, 2>>,
         <<28, 167, 124, 224, 140, 207, 48, 242, 55, 237, 146, 214, 8, 56, 10, 13, 88, 202, 64, 40, 106, 12, 178, 226, 149, 125, 205, 5, 132, 143, 52, 145, 165, 20, 147, 244, 173, 149, 95, 186, 92, 186, 212, 32, 60, 195, 150, 222, 168, 217, 202, 133, 151, 66, 196, 2, 9, 135, 188, 108, 54, 67, 249, 147>>>>,
      <<<<83, 79, 77, 69, 95, 83, 69, 67, 82, 69, 84>>, <<0, 0, 0, 0, 0, 0, 0, 3>>,
         <<88, 207, 40, 29, 253, 147, 173, 223, 48, 27, 167, 163, 220, 135, 81, 214, 164, 39, 103, 14, 126, 89, 123, 241, 72, 110, 40, 92, 22, 112, 55, 142, 9, 16, 44, 123, 190, 205, 215, 5, 164, 255, 34, 12, 144, 183, 71, 54, 30, 157, 121, 70, 72, 64, 240, 126, 36, 218, 95, 203, 67, 162, 69, 32>>>>,
      <<<<83, 79, 77, 69, 95, 83, 69, 67, 82, 69, 84>>, <<0, 0, 0, 0, 0, 0, 0, 4>>,
         <<230, 70, 112, 117, 30, 46, 50, 220, 25, 67, 24, 230, 119, 14, 82, 202, 26, 234, 246, 71, 246, 53, 176, 114, 164, 243, 245, 225, 58, 184, 100, 156, 108, 71, 113, 129, 40, 79, 14, 174, 36, 162, 34, 113, 242, 0, 94, 66, 8, 171, 40, 39, 82, 35, 21, 47, 29, 10, 24, 15, 26, 197, 239, 249>>>>,
      <<<<83, 79, 77, 69, 95, 83, 69, 67, 82, 69, 84>>, <<0, 0, 0, 0, 0, 0, 0, 5>>,
         <<147, 5, 86, 218, 83, 139, 141, 217, 239, 155, 95, 174, 114, 255, 92, 118, 27, 235, 60, 18, 154, 29, 5, 36, 122, 67, 239, 180, 21, 57, 69, 129, 219, 45, 111, 110, 5, 243, 255, 47, 162, 84, 71, 138, 7, 1, 2, 137, 2, 35, 79, 238, 13, 171, 35, 19, 194, 248, 52, 255, 222, 229, 71, 162>>>>,
      <<<<83, 79, 77, 69, 95, 83, 69, 67, 82, 69, 84>>, <<0, 0, 0, 0, 0, 0, 0, 6>>,
         <<235, 112, 82, 141, 74, 197, 153, 191, 65, 253, 87, 204, 161, 34, 66, 142, 27, 89, 139, 241, 169, 211, 201, 19, 75, 215, 164, 78, 11, 110, 235, 166, 82, 24, 206, 245, 130, 20, 146, 148, 119, 67, 164, 185, 220, 16, 10, 224, 195, 148, 36, 5, 32, 175, 109, 83, 225, 47, 46, 177, 178, 30, 200, 54>>>>,
      <<<<83, 79, 77, 69, 95, 83, 69, 67, 82, 69, 84>>, <<0, 0, 0, 0, 0, 0, 0, 7>>,
         <<111, 173, 8, 87, 203, 18, 26, 220, 114, 85, 91, 5, 162, 10, 165, 97, 158, 205, 96, 89, 78, 226, 67, 13, 67, 1, 116, 7, 215, 106, 117, 143, 18, 187, 137, 60, 228, 166, 90, 105, 127, 137, 43, 184, 23, 149, 227, 59, 46, 83, 227, 86, 171, 34, 123, 138, 252, 222, 60, 56, 204, 230, 14, 87>>>>,
      <<<<83, 79, 77, 69, 95, 83, 69, 67, 82, 69, 84>>, <<0, 0, 0, 0, 0, 0, 0, 8>>,
         <<53, 51, 10, 113, 160, 106, 39, 79, 75, 127, 122, 237, 177, 5, 30, 95, 133, 62, 216, 127, 120, 127, 242, 12, 40, 150, 93, 212, 119, 149, 213, 89, 197, 104, 66, 80, 135, 62, 63, 102, 170, 127, 73, 137, 90, 8, 242, 150, 11, 218, 118, 4, 91, 136, 111, 234, 177, 38, 210, 177, 154, 58, 250, 145>>>>,
      <<<<83, 79, 77, 69, 95, 83, 69, 67, 82, 69, 84>>, <<0, 0, 0, 0, 0, 0, 0, 9>>,
         <<242, 199, 135, 110, 151, 178, 91, 91, 134, 195, 44, 84, 32, 105, 233, 56, 23, 130, 74, 70, 124, 158, 103, 233, 71, 23, 233, 195, 79, 60, 254, 106, 114, 235, 179, 189, 84, 143, 43, 231, 5, 70, 81, 221, 255, 68, 148, 155, 241, 100, 156, 127, 1, 35, 111, 18, 190, 47, 241, 34, 59, 231, 88, 45>>>>,
      <<<<83, 79, 77, 69, 95, 83, 69, 67, 82, 69, 84>>, <<0, 0, 0, 0, 0, 0, 0, 10>>,
         <<135, 170, 223, 250, 58, 77, 103, 51, 64, 197, 249, 141, 134, 108, 225, 83, 38, 187, 227, 2, 221, 22, 173, 57, 166, 242, 65, 3, 15, 147, 57, 89, 10, 90, 138, 145, 171, 111, 242, 25, 128, 44, 79, 225, 52, 135, 251, 101, 209, 39, 205, 232, 33, 203, 33, 29, 65, 144, 127, 114, 38, 148, 78, 152>>>>,
      <<<<83, 79, 77, 69, 95, 83, 69, 67, 82, 69, 84>>, <<0, 0, 0, 0, 0, 0, 0, 11>>,
         <<98, 43, 249, 182, 191, 11, 110, 105, 226, 140, 197, 199, 202, 148, 175, 46, 167, 206, 255, 144, 218, 79, 12, 229, 234, 137, 147, 212, 32, 127, 37, 133, 88, 119, 100, 198, 158, 41, 176, 233, 251, 192, 127, 100, 144, 51, 182, 254, 217, 35, 242, 164, 118, 150, 67, 98, 1, 109, 152, 9, 77, 161, 218, 206>>>>,
      <<<<83, 79, 77, 69, 95, 83, 69, 67, 82, 69, 84>>, <<0, 0, 0, 0, 0, 0, 0, 12>>,
         <<8, 194, 112, 243, 182, 107, 209, 103, 184, 139, 16, 225, 43, 122, 168, 86, 125, 32, 191, 25, 43, 197, 22, 32, 208, 249, 87, 215, 130, 230, 229, 118, 171, 223, 16, 140, 222, 167, 14, 122, 178, 99, 21, 195, 250, 52, 186, 9, 37, 101, 35, 128, 242, 106, 97, 7, 118, 78, 19, 190, 216, 92, 41, 225>>>>,
      <<<<83, 79, 77, 69, 95, 83, 69, 67, 82, 69, 84>>, <<0, 0, 0, 0, 0, 0, 0, 13>>,
         <<192, 112, 213, 220, 90, 159, 160, 94, 234, 239, 208, 227, 18, 58, 140, 124, 196, 203, 113, 216, 219, 123, 238, 97, 211, 241, 126, 191, 46, 150, 158, 160, 169, 237, 45, 131, 39, 246, 57, 116, 244, 88, 247, 199, 237, 167, 23, 23, 19, 176, 169, 250, 8, 81, 226, 30, 221, 77, 51, 111, 123, 165, 223, 126>>>>,
      <<<<83, 79, 77, 69, 95, 83, 69, 67, 82, 69, 84>>, <<0, 0, 0, 0, 0, 0, 0, 14>>,
         <<58, 240, 70, 95, 235, 8, 125, 61, 96, 118, 51, 164, 235, 73, 9, 92, 125, 28, 234, 9, 175, 249, 147, 44, 167, 163, 104, 39, 200, 109, 151, 134, 182, 232, 130, 231, 106, 131, 144, 149, 24, 21, 249, 122, 126, 12, 236, 52, 176, 223, 178, 190, 85, 111, 113, 57, 7, 147, 125, 110, 253, 118, 135, 51>>>>,
      <<<<83, 79, 77, 69, 95, 83, 69, 67, 82, 69, 84>>, <<0, 0, 0, 0, 0, 0, 0, 15>>,
         <<2, 59, 71, 46, 227, 218, 81, 29, 181, 193, 185, 98, 170, 242, 19, 255, 141, 217, 106, 10, 128, 130, 51, 215, 232, 128, 224, 216, 62, 26, 43, 126, 73, 199, 140, 5, 18, 88, 227, 168, 73, 30, 131, 165, 216, 18, 164, 222, 52, 249, 107, 201, 139, 82, 75, 37, 42, 236, 190, 120, 142, 207, 152, 11>>>>,
      <<<<83, 79, 77, 69, 95, 83, 69, 67, 82, 69, 84>>, <<0, 0, 0, 0, 0, 0, 0, 16>>,
         <<184, 2, 90, 163, 67, 111, 28, 73, 67, 145, 79, 116, 147, 227, 134, 2, 204, 210, 162, 82, 74, 27, 98, 148, 10, 248, 64, 241, 172, 120, 106, 104, 210, 207, 181, 155, 236, 63, 197, 166, 197, 10, 29, 254, 76, 128, 213, 10, 242, 217, 194, 183, 109, 71, 32, 76, 145, 46, 78, 160, 236, 244, 204, 181>>>>,
      <<<<83, 79, 77, 69, 95, 83, 69, 67, 82, 69, 84>>, <<0, 0, 0, 0, 0, 0, 0, 17>>,
         <<229, 167, 180, 131, 198, 124, 156, 94, 105, 93, 216, 29, 173, 195, 99, 135, 126, 120, 150, 243, 229, 251, 185, 179, 207, 55, 209, 46, 180, 99, 99, 100, 249, 49, 92, 222, 106, 65, 15, 212, 91, 56, 69, 135, 42, 216, 24, 182, 65, 57, 68, 14, 30, 226, 168, 27, 117, 142, 254, 115, 221, 171, 172, 163>>>>,
      <<<<83, 79, 77, 69, 95, 83, 69, 67, 82, 69, 84>>, <<0, 0, 0, 0, 0, 0, 0, 18>>,
         <<170, 122, 5, 62, 251, 167, 15, 178, 26, 197, 3, 243, 198, 180, 242, 123, 181, 136, 77, 58, 58, 186, 30, 126, 189, 136, 190, 138, 14, 143, 213, 87, 5, 161, 147, 33, 103, 26, 168, 244, 40, 131, 229, 13, 179, 135, 163, 125, 0, 5, 180, 120, 75, 2, 217, 143, 68, 186, 235, 137, 165, 119, 155, 170>>>>,
      <<<<83, 79, 77, 69, 95, 83, 69, 67, 82, 69, 84>>, <<0, 0, 0, 0, 0, 0, 0, 19>>,
         <<161, 243, 103, 210, 190, 162, 117, 245, 248, 64, 119, 186, 150, 29, 172, 252, 248, 95, 159, 119, 231, 220, 224, 241, 78, 147, 56, 175, 55, 245, 139, 17, 240, 162, 19, 233, 5, 174, 244, 200, 145, 128, 97, 231, 99, 87, 81, 174, 243, 232, 68, 130, 79, 120, 35, 250, 49, 250, 91, 131, 145, 78, 0, 174>>>>,
      <<<<83, 79, 77, 69, 95, 83, 69, 67, 82, 69, 84>>, <<0, 0, 0, 0, 0, 0, 0, 20>>,
         <<13, 233, 112, 11, 34, 88, 73, 42, 193, 158, 105, 135, 175, 154, 231, 187, 2, 76, 214, 47, 109, 146, 50, 148, 5, 250, 13, 170, 171, 90, 72, 201, 129, 181, 59, 167, 74, 20, 196, 28, 141, 93, 57, 124, 220, 149, 197, 59, 231, 23, 136, 92, 6, 107, 212, 133, 55, 91, 233, 63, 145, 182, 7, 246>>>>,
      <<<<83, 79, 77, 69, 95, 83, 69, 67, 82, 69, 84>>, <<0, 0, 0, 0, 0, 0, 0, 21>>,
         <<159, 238, 162, 157, 88, 91, 195, 36, 163, 231, 59, 123, 34, 230, 144, 34, 49, 72, 5, 75, 20, 231, 96, 247, 162, 107, 148, 82, 154, 29, 135, 29, 78, 126, 110, 39, 100, 165, 204, 3, 192, 173, 23, 170, 62, 100, 148, 244, 73, 92, 171, 151, 71, 66, 143, 179, 141, 38, 225, 52, 67, 143, 23, 168>>>>,
      <<<<83, 79, 77, 69, 95, 83, 69, 67, 82, 69, 84>>, <<0, 0, 0, 0, 0, 0, 0, 22>>,
         <<254, 145, 138, 186, 242, 156, 241, 190, 162, 60, 152, 183, 204, 52, 35, 18, 175, 53, 78, 34, 147, 236, 207, 154, 77, 201, 209, 144, 66, 145, 110, 199, 221, 249, 215, 220, 69, 176, 105, 164, 193, 211, 97, 158, 252, 52, 15, 253, 132, 99, 242, 241, 138, 164, 149, 218, 143, 190, 100, 44, 254, 142, 185, 240>>>>,
      <<<<83, 79, 77, 69, 95, 83, 69, 67, 82, 69, 84>>, <<0, 0, 0, 0, 0, 0, 0, 23>>,
         <<94, 130, 71, 197, 201, 218, 44, 152, 199, 94, 84, 205, 197, 10, 198, 101, 189, 253, 141, 22, 160, 66, 148, 244, 244, 10, 211, 186, 86, 26, 229, 183, 117, 181, 166, 97, 159, 135, 174, 105, 175, 42, 107, 253, 143, 157, 125, 158, 0, 80, 241, 31, 29, 217, 180, 30, 241, 224, 39, 239, 219, 130, 219, 90>>>>,
      <<<<83, 79, 77, 69, 95, 83, 69, 67, 82, 69, 84>>, <<0, 0, 0, 0, 0, 0, 0, 24>>,
         <<152, 222, 189, 249, 71, 153, 110, 57, 151, 143, 251, 10, 79, 240, 158, 188, 203, 214, 82, 67, 14, 235, 193, 58, 45, 105, 50, 58, 223, 44, 138, 66, 19, 92, 4, 179, 123, 183, 161, 215, 223, 74, 148, 129, 55, 22, 246, 128, 174, 209, 240, 218, 63, 17, 175, 31, 55, 8, 89, 177, 219, 81, 164, 115>>>>,
      <<<<83, 79, 77, 69, 95, 83, 69, 67, 82, 69, 84>>, <<0, 0, 0, 0, 0, 0, 0, 25>>,
         <<242, 172, 11, 96, 181, 28, 238, 181, 57, 99, 97, 188, 209, 248, 6, 195, 139, 1, 156, 31, 171, 129, 20, 218, 231, 66, 131, 236, 141, 85, 245, 211, 208, 130, 198, 18, 80, 178, 38, 209, 1, 67, 27, 229, 0, 36, 128, 33, 1, 250, 24, 168, 164, 98, 80, 111, 71, 63, 157, 219, 216, 62, 177, 78>>>>,
      <<<<83, 79, 77, 69, 95, 83, 69, 67, 82, 69, 84>>, <<0, 0, 0, 0, 0, 0, 0, 26>>,
         <<240, 23, 153, 71, 139, 201, 144, 38, 54, 5, 231, 95, 242, 132, 100, 180, 168, 152, 89, 152, 82, 72, 168, 110, 155, 46, 201, 17, 194, 131, 96, 239, 159, 42, 149, 88, 24, 115, 24, 28, 232, 58, 253, 168, 89, 95, 36, 41, 186, 245, 180, 233, 165, 76, 163, 242, 63, 207, 181, 7, 217, 227, 142, 34>>>>,
      <<<<83, 79, 77, 69, 95, 83, 69, 67, 82, 69, 84>>, <<0, 0, 0, 0, 0, 0, 0, 27>>,
         <<42, 8, 164, 187, 121, 148, 208, 1, 137, 20, 136, 67, 189, 246, 55, 205, 13, 247, 13, 89, 40, 226, 35, 32, 77, 72, 166, 101, 88, 143, 72, 36, 239, 27, 178, 226, 242, 0, 112, 91, 72, 31, 124, 2, 109, 184, 202, 67, 22, 102, 216, 246, 46, 227, 203, 222, 122, 175, 85, 109, 56, 196, 162, 117>>>>,
      <<<<83, 79, 77, 69, 95, 83, 69, 67, 82, 69, 84>>, <<0, 0, 0, 0, 0, 0, 0, 28>>,
         <<103, 29, 155, 134, 177, 213, 33, 199, 130, 205, 191, 5, 99, 92, 134, 203, 86, 96, 96, 215, 61, 161, 14, 147, 14, 248, 208, 36, 168, 17, 53, 199, 204, 98, 115, 87, 24, 10, 19, 156, 197, 19, 15, 226, 244, 42, 84, 15, 232, 72, 63, 12, 223, 182, 196, 207, 15, 35, 209, 164, 183, 152, 173, 43>>>>,
      <<<<83, 79, 77, 69, 95, 83, 69, 67, 82, 69, 84>>, <<0, 0, 0, 0, 0, 0, 0, 29>>,
         <<90, 33, 212, 180, 184, 129, 223, 121, 32, 176, 195, 136, 89, 59, 104, 24, 29, 29, 253, 4, 238, 212, 3, 0, 8, 115, 142, 134, 139, 118, 37, 3, 159, 208, 159, 140, 61, 139, 210, 216, 78, 20, 89, 194, 239, 123, 210, 187, 241, 38, 192, 26, 70, 87, 133, 63, 179, 5, 179, 169, 43, 82, 132, 110>>>>,
      <<<<83, 79, 77, 69, 95, 83, 69, 67, 82, 69, 84>>, <<0, 0, 0, 0, 0, 0, 0, 30>>,
         <<60, 7, 76, 5, 245, 87, 137, 125, 105, 234, 49, 5, 127, 52, 134, 74, 35, 206, 156, 0, 124, 135, 45, 136, 41, 170, 176, 54, 187, 97, 213, 106, 43, 184, 139, 14, 25, 245, 80, 109, 200, 204, 245, 90, 168, 189, 214, 225, 182, 141, 207, 124, 183, 215, 228, 253, 54, 4, 78, 211, 42, 237, 186, 166>>>>,
      <<<<83, 79, 77, 69, 95, 83, 69, 67, 82, 69, 84>>, <<0, 0, 0, 0, 0, 0, 0, 31>>,
         <<229, 6, 142, 198, 154, 13, 56, 82, 93, 131, 214, 20, 102, 142, 80, 7, 103, 204, 184, 255, 50, 220, 232, 4, 158, 103, 163, 10, 76, 171, 190, 232, 111, 28, 180, 217, 212, 197, 103, 47, 168, 68, 160, 108, 161, 119, 139, 40, 20, 164, 153, 99, 155, 117, 32, 175, 105, 48, 57, 68, 114, 138, 10, 237>>>>,
      <<<<83, 79, 77, 69, 95, 83, 69, 67, 82, 69, 84>>, <<0, 0, 0, 0, 0, 0, 0, 32>>,
         <<68, 155, 110, 126, 122, 255, 229, 228, 145, 209, 63, 17, 141, 8, 186, 78, 230, 46, 8, 208, 117, 135, 68, 65, 197, 155, 252, 109, 255, 69, 23, 232, 253, 15, 165, 84, 196, 59, 36, 214, 203, 215, 36, 177, 217, 166, 222, 223, 96, 163, 144, 138, 251, 44, 253, 79, 73, 12, 192, 19, 130, 50, 202, 215>>>>,
      <<<<83, 79, 77, 69, 95, 83, 69, 67, 82, 69, 84>>, <<0, 0, 0, 0, 0, 0, 0, 33>>,
         <<132, 68, 254, 110, 25, 170, 119, 8, 10, 234, 54, 130, 231, 125, 223, 95, 215, 157, 30, 206, 188, 113, 216, 186, 217, 183, 231, 18, 181, 106, 85, 3, 208, 239, 237, 199, 197, 11, 107, 232, 128, 104, 246, 109, 214, 80, 199, 90, 129, 96, 42, 37, 179, 15, 251, 74, 174, 14, 82, 57, 39, 151, 4, 251>>>>,
      <<<<83, 79, 77, 69, 95, 83, 69, 67, 82, 69, 84>>, <<0, 0, 0, 0, 0, 0, 0, 34>>,
         <<246, 113, 28, 177, 54, 63, 167, 13, 73, 112, 176, 141, 135, 51, 36, 217, 47, 12, 32, 51, 212, 108, 35, 44, 199, 185, 5, 45, 241, 105, 117, 75, 252, 69, 23, 155, 24, 149, 209, 65, 200, 10, 108, 49, 140, 246, 141, 152, 134, 188, 165, 238, 65, 51, 104, 30, 7, 35, 250, 243, 144, 38, 180, 52>>>>,
      <<<<83, 79, 77, 69, 95, 83, 69, 67, 82, 69, 84>>, <<0, 0, 0, 0, 0, 0, 0, 35>>,
         <<244, 220, 235, 157, 2, 171, 160, 43, 46, 24, 160, 56, 242, 80, 141, 149, 54, 248, 127, 200, 165, 143, 120, 82, 151, 84, 99, 215, 61, 62, 66, 70, 74, 229, 134, 119, 1, 92, 250, 219, 52, 84, 75, 247, 157, 28, 123, 10, 208, 204, 173, 155, 121, 162, 79, 169, 27, 127, 56, 233, 193, 169, 106, 203>>>>,
      <<<<83, 79, 77, 69, 95, 83, 69, 67, 82, 69, 84>>, <<0, 0, 0, 0, 0, 0, 0, 36>>,
         <<15, 114, 190, 88, 150, 51, 66, 110, 118, 28, 3, 134, 60, 184, 210, 185, 130, 135, 177, 37, 83, 185, 255, 224, 249, 188, 93, 81, 196, 76, 96, 236, 204, 170, 69, 59, 25, 103, 195, 112, 166, 49, 87, 63, 25, 119, 192, 253, 99, 200, 33, 13, 27, 8, 68, 246, 173, 166, 228, 179, 221, 236, 195, 48>>>>,
      <<<<83, 79, 77, 69, 95, 83, 69, 67, 82, 69, 84>>, <<0, 0, 0, 0, 0, 0, 0, 37>>,
         <<150, 173, 52, 251, 37, 224, 230, 119, 112, 58, 176, 13, 233, 247, 6, 230, 196, 53, 134, 3, 252, 24, 96, 29, 86, 21, 116, 98, 244, 67, 4, 201, 61, 120, 92, 27, 225, 37, 210, 24, 195, 113, 84, 108, 104, 210, 102, 110, 41, 100, 165, 102, 9, 184, 24, 54, 214, 247, 80, 107, 88, 247, 120, 224>>>>,
      <<<<83, 79, 77, 69, 95, 83, 69, 67, 82, 69, 84>>, <<0, 0, 0, 0, 0, 0, 0, 38>>,
         <<161, 94, 6, 110, 149, 93, 77, 184, 182, 242, 103, 24, 59, 192, 154, 197, 22, 183, 29, 238, 95, 109, 193, 179, 44, 150, 146, 203, 83, 140, 43, 174, 165, 11, 3, 103, 194, 199, 250, 90, 121, 240, 57, 122, 15, 165, 168, 189, 195, 193, 174, 40, 217, 236, 230, 5, 5, 29, 58, 212, 103, 57, 124, 83>>>>,
      <<<<83, 79, 77, 69, 95, 83, 69, 67, 82, 69, 84>>, <<0, 0, 0, 0, 0, 0, 0, 39>>,
         <<86, 199, 63, 82, 214, 154, 21, 180, 235, 134, 69, 129, 163, 47, 87, 100, 175, 194, 35, 167, 77, 220, 176, 117, 117, 36, 6, 19, 52, 49, 15, 191, 32, 216, 147, 8, 237, 122, 112, 0, 156, 173, 76, 172, 152, 77, 186, 218, 172, 187, 100, 165, 20, 141, 163, 157, 114, 31, 163, 162, 85, 39, 86, 15>>>>,
      <<<<83, 79, 77, 69, 95, 83, 69, 67, 82, 69, 84>>, <<0, 0, 0, 0, 0, 0, 0, 40>>,
         <<60, 67, 145, 61, 67, 168, 44, 9, 164, 46, 161, 236, 187, 185, 127, 145, 7, 213, 228, 64, 168, 190, 205, 128, 226, 40, 151, 253, 113, 179, 217, 46, 249, 166, 137, 87, 210, 22, 223, 37, 244, 168, 52, 80, 245, 213, 112, 254, 178, 79, 208, 86, 48, 119, 51, 130, 108, 120, 180, 139, 134, 30, 252, 225>>>>,
      <<<<83, 79, 77, 69, 95, 83, 69, 67, 82, 69, 84>>, <<0, 0, 0, 0, 0, 0, 0, 41>>,
         <<24, 201, 218, 86, 168, 120, 138, 204, 14, 21, 69, 245, 98, 203, 254, 68, 177, 44, 144, 246, 249, 77, 95, 9, 49, 12, 93, 247, 203, 119, 226, 39, 108, 215, 140, 1, 155, 67, 8, 81, 21, 221, 232, 172, 252, 208, 87, 88, 21, 158, 29, 184, 61, 152, 64, 189, 90, 48, 19, 253, 31, 142, 31, 192>>>>,
      <<<<83, 79, 77, 69, 95, 83, 69, 67, 82, 69, 84>>, <<0, 0, 0, 0, 0, 0, 0, 42>>,
         <<2, 187, 157, 117, 79, 134, 29, 235, 215, 213, 188, 162, 0, 5, 11, 47, 148, 45, 130, 33, 202, 218, 216, 128, 212, 209, 23, 17, 6, 170, 252, 101, 27, 247, 57, 201, 208, 189, 180, 107, 2, 114, 97, 42, 115, 95, 113, 2, 97, 8, 205, 178, 111, 18, 15, 55, 32, 209, 241, 250, 221, 9, 238, 105>>>>,
      <<<<83, 79, 77, 69, 95, 83, 69, 67, 82, 69, 84>>, <<0, 0, 0, 0, 0, 0, 0, 43>>,
         <<42, 40, 156, 78, 25, 52, 155, 192, 54, 139, 116, 170, 228, 249, 6, 197, 10, 251, 199, 171, 193, 76, 145, 150, 16, 190, 205, 122, 3, 231, 235, 107, 228, 1, 137, 241, 254, 68, 230, 242, 162, 48, 174, 210, 212, 180, 135, 25, 41, 207, 173, 222, 194, 178, 254, 200, 133, 86, 217, 206, 119, 171, 178, 210>>>>,
      <<<<83, 79, 77, 69, 95, 83, 69, 67, 82, 69, 84>>, <<0, 0, 0, 0, 0, 0, 0, 44>>,
         <<18, 250, 158, 160, 69, 153, 152, 167, 235, 134, 174, 28, 20, 255, 79, 103, 225, 197, 226, 243, 255, 69, 146, 229, 126, 0, 206, 251, 158, 203, 179, 153, 57, 115, 174, 140, 137, 201, 11, 15, 78, 225, 198, 126, 159, 26, 79, 163, 37, 224, 130, 108, 61, 30, 188, 240, 84, 108, 4, 167, 84, 193, 4, 147>>>>,
      <<<<83, 79, 77, 69, 95, 83, 69, 67, 82, 69, 84>>, <<0, 0, 0, 0, 0, 0, 0, 45>>,
         <<148, 108, 207, 129, 73, 8, 224, 88, 23, 33, 155, 59, 211, 209, 199, 59, 214, 217, 165, 182, 61, 75, 222, 66, 97, 92, 169, 5, 53, 158, 113, 9, 52, 172, 100, 143, 33, 168, 5, 252, 98, 139, 54, 188, 231, 76, 39, 171, 213, 34, 125, 253, 221, 170, 193, 56, 16, 203, 220, 95, 86, 6, 0, 54>>>>,
      <<<<83, 79, 77, 69, 95, 83, 69, 67, 82, 69, 84>>, <<0, 0, 0, 0, 0, 0, 0, 46>>,
         <<12, 42, 68, 100, 251, 11, 250, 27, 158, 50, 88, 131, 95, 36, 93, 84, 246, 64, 191, 81, 12, 189, 7, 3, 157, 176, 197, 154, 250, 249, 155, 117, 209, 11, 18, 156, 162, 93, 230, 238, 234, 126, 115, 238, 170, 168, 215, 236, 243, 195, 71, 204, 128, 232, 147, 58, 68, 111, 12, 255, 47, 3, 120, 215>>>>,
      <<<<83, 79, 77, 69, 95, 83, 69, 67, 82, 69, 84>>, <<0, 0, 0, 0, 0, 0, 0, 47>>,
         <<83, 57, 37, 34, 96, 211, 81, 101, 34, 53, 99, 216, 141, 170, 251, 110, 168, 45, 105, 80, 127, 194, 71, 126, 59, 62, 57, 100, 225, 67, 248, 122, 192, 134, 117, 78, 86, 101, 96, 82, 231, 140, 233, 195, 201, 14, 174, 65, 109, 138, 64, 21, 199, 248, 40, 2, 162, 71, 222, 88, 19, 107, 97, 251>>>>,
      <<<<83, 79, 77, 69, 95, 83, 69, 67, 82, 69, 84>>, <<0, 0, 0, 0, 0, 0, 0, 48>>,
         <<220, 145, 27, 135, 26, 2, 106, 28, 190, 235, 221, 110, 219, 83, 10, 29, 251, 135, 23, 114, 208, 154, 61, 97, 137, 1, 251, 154, 67, 226, 13, 171, 179, 228, 38, 176, 203, 189, 81, 3, 63, 235, 118, 158, 104, 126, 61, 164, 207, 139, 33, 211, 6, 226, 111, 175, 235, 25, 122, 189, 88, 15, 242, 229>>>>,
      <<<<83, 79, 77, 69, 95, 83, 69, 67, 82, 69, 84>>, <<0, 0, 0, 0, 0, 0, 0, 49>>,
         <<109, 157, 195, 242, 72, 118, 32, 236, 194, 114, 190, 192, 146, 238, 51, 146, 145, 98, 147, 8, 61, 57, 181, 13, 7, 163, 46, 0, 216, 169, 164, 223, 26, 86, 20, 226, 192, 153, 74, 20, 201, 98, 3, 103, 52, 48, 108, 228, 98, 50, 228, 190, 103, 127, 154, 2, 90, 144, 186, 12, 11, 82, 232, 45>>>>,
      <<<<83, 79, 77, 69, 95, 83, 69, 67, 82, 69, 84>>, <<0, 0, 0, 0, 0, 0, 0, 50>>,
         <<163, 22, 225, 254, 124, 116, 54, 162, 167, 92, 139, 184, 111, 102, 186, 31, 5, 247, 195, 196, 203, 40, 116, 185, 218, 161, 110, 101, 147, 216, 217, 53, 193, 236, 62, 131, 177, 135, 190, 143, 93, 121, 228, 127, 47, 251, 114, 80, 228, 255, 9, 124, 163, 84, 188, 102, 56, 112, 40, 143, 90, 11, 162, 10>>>>,
      <<<<83, 79, 77, 69, 95, 83, 69, 67, 82, 69, 84>>, <<0, 0, 0, 0, 0, 0, 0, 51>>,
         <<243, 129, 46, 55, 12, 61, 98, 163, 225, 188, 222, 165, 91, 9, 73, 129, 61, 10, 122, 115, 107, 76, 29, 2, 155, 173, 2, 46, 29, 179, 94, 120, 201, 156, 1, 128, 168, 139, 27, 223, 78, 99, 220, 97, 203, 134, 154, 6, 232, 157, 95, 160, 247, 123, 51, 214, 153, 82, 161, 91, 183, 154, 39, 156>>>>,
      <<<<83, 79, 77, 69, 95, 83, 69, 67, 82, 69, 84>>, <<0, 0, 0, 0, 0, 0, 0, 52>>,
         <<254, 72, 158, 89, 241, 234, 15, 137, 68, 71, 99, 196, 73, 8, 98, 27, 25, 232, 139, 163, 17, 177, 222, 1, 230, 169, 17, 154, 250, 47, 32, 212, 63, 51, 182, 236, 106, 186, 207, 137, 154, 132, 248, 186, 188, 183, 157, 39, 170, 145, 120, 21, 88, 143, 170, 23, 12, 110, 103, 201, 211, 161, 149, 249>>>>,
      <<<<83, 79, 77, 69, 95, 83, 69, 67, 82, 69, 84>>, <<0, 0, 0, 0, 0, 0, 0, 53>>,
         <<56, 64, 231, 58, 159, 169, 29, 186, 94, 206, 29, 20, 186, 127, 38, 98, 195, 12, 20, 113, 16, 244, 105, 152, 232, 92, 14, 175, 30, 129, 209, 95, 51, 124, 124, 190, 116, 185, 204, 112, 137, 209, 75, 158, 65, 16, 43, 35, 208, 55, 198, 89, 166, 19, 186, 62, 67, 35, 132, 134, 88, 122, 83, 190>>>>,
      <<<<83, 79, 77, 69, 95, 83, 69, 67, 82, 69, 84>>, <<0, 0, 0, 0, 0, 0, 0, 54>>,
         <<247, 254, 241, 180, 228, 76, 52, 175, 207, 247, 66, 208, 78, 103, 231, 112, 129, 231, 223, 47, 217, 131, 63, 193, 4, 46, 163, 210, 236, 147, 15, 237, 163, 182, 243, 141, 145, 134, 231, 205, 66, 21, 78, 43, 47, 110, 62, 7, 62, 217, 227, 130, 83, 173, 158, 50, 224, 146, 45, 81, 22, 76, 116, 228>>>>,
      <<<<83, 79, 77, 69, 95, 83, 69, 67, 82, 69, 84>>, <<0, 0, 0, 0, 0, 0, 0, 55>>,
         <<112, 18, 121, 2, 245, 116, 4, 216, 54, 76, 67, 82, 216, 177, 33, 84, 44, 46, 82, 186, 168, 48, 87, 126, 198, 6, 210, 120, 110, 191, 105, 232, 157, 176, 82, 105, 174, 217, 40, 241, 120, 129, 4, 74, 174, 178, 254, 230, 139, 70, 143, 190, 219, 158, 14, 49, 111, 32, 143, 10, 43, 102, 22, 0>>>>,
      <<<<83, 79, 77, 69, 95, 83, 69, 67, 82, 69, 84>>, <<0, 0, 0, 0, 0, 0, 0, 66>>,
         <<88, 98, 212, 196, 131, 242, 149, 183, 250, 28, 197, 107, 234, 236, 86, 216, 32, 52, 223, 144, 164, 68, 45, 147, 142, 38, 194, 49, 225, 49, 183, 16, 31, 50, 185, 21, 175, 172, 65, 91, 104, 253, 246, 100, 52, 99, 142, 123, 83, 102, 203, 199, 33, 163, 134, 128, 80, 93, 122, 79, 117, 76, 207, 27>>>>,
      <<<<83, 79, 77, 69, 95, 83, 69, 67, 82, 69, 84>>, <<0, 0, 0, 0, 0, 1, 226, 64>>,
         <<146, 148, 90, 164, 1, 230, 108, 148, 71, 122, 47, 147, 213, 70, 10, 39, 149, 195, 229, 176, 234, 125, 251, 96, 172, 18, 64, 179, 146, 67, 130, 90, 185, 99, 231, 248, 128, 118, 206, 43, 109, 155, 105, 209, 147, 190, 166, 209, 205, 137, 132, 159, 208, 246, 150, 23, 32, 95, 109, 48, 111, 28, 41, 240>>>>,
      <<<<83, 79, 77, 69, 95, 83, 69, 67, 82, 69, 84>>, <<0, 0, 0, 0, 0, 8, 136, 136>>,
         <<63, 96, 123, 210, 4, 31, 191, 169, 130, 16, 236, 148, 188, 225, 11, 42, 121, 38, 122, 238, 52, 153, 179, 169, 114, 54, 231, 197, 152, 89, 17, 191, 240, 229, 9, 234, 248, 148, 70, 71, 219, 67, 94, 83, 73, 65, 83, 181, 147, 241, 238, 69, 109, 244, 114, 193, 205, 124, 204, 75, 247, 205, 110, 111>>>>,
      <<<<83, 79, 77, 69, 95, 83, 69, 67, 82, 69, 84>>, <<0, 0, 0, 0, 0, 128, 0, 6>>,
         <<138, 213, 219, 75, 94, 205, 138, 56, 7, 222, 158, 118, 224, 119, 32, 170, 132, 193, 192, 67, 153, 96, 110, 13, 35, 139, 53, 3, 156, 215, 57, 14, 240, 24, 87, 121, 24, 168, 62, 67, 114, 192, 131, 125, 101, 65, 222, 128, 177, 16, 15, 213, 135, 124, 195, 58, 190, 216, 207, 235, 130, 171, 30, 47>>>>,
      <<<<83, 79, 77, 69, 95, 83, 69, 67, 82, 69, 84>>, <<0, 0, 0, 0, 0, 232, 186, 58>>,
         <<57, 239, 31, 221, 74, 18, 112, 77, 155, 146, 29, 81, 116, 104, 129, 250, 111, 84, 221, 72, 79, 224, 75, 36, 118, 107, 142, 150, 234, 40, 188, 18, 66, 110, 80, 204, 145, 68, 225, 33, 188, 239, 60, 168, 246, 132, 68, 205, 110, 89, 115, 154, 243, 193, 227, 119, 11, 142, 38, 125, 148, 125, 33, 132>>>>,
      <<<<83, 79, 77, 69, 95, 83, 69, 67, 82, 69, 84>>, <<0, 0, 0, 0, 1, 0, 0, 13>>,
         <<33, 173, 179, 220, 26, 94, 209, 203, 8, 203, 16, 55, 13, 231, 235, 49, 193, 142, 243, 14, 154, 18, 101, 49, 61, 60, 45, 85, 10, 22, 152, 173, 19, 79, 0, 94, 13, 52, 242, 237, 37, 83, 141, 34, 110, 60, 62, 24, 210, 251, 62, 170, 34, 56, 176, 201, 79, 113, 149, 49, 192, 182, 102, 61>>>>,
      <<<<83, 79, 77, 69, 95, 83, 69, 67, 82, 69, 84>>, <<0, 0, 0, 0, 2, 0, 0, 26>>,
         <<93, 19, 166, 215, 228, 90, 197, 246, 125, 160, 135, 219, 237, 163, 16, 21, 92, 149, 148, 185, 44, 250, 116, 226, 127, 48, 115, 171, 194, 227, 91, 125, 173, 92, 43, 230, 145, 226, 211, 228, 205, 105, 102, 237, 131, 42, 179, 80, 110, 44, 47, 232, 54, 119, 63, 105, 195, 252, 144, 6, 59, 113, 32, 24>>>>,
      <<<<83, 79, 77, 69, 95, 83, 69, 67, 82, 69, 84>>, <<128, 0, 0, 0, 0, 0, 0, 0>>,
         <<90, 124, 227, 148, 58, 118, 161, 29, 224, 102, 117, 86, 140, 177, 234, 159, 229, 194, 142, 184, 95, 236, 70, 28, 140, 153, 229, 80, 248, 237, 217, 3, 144, 20, 219, 255, 190, 24, 163, 101, 129, 90, 119, 153, 211, 57, 76, 172, 232, 216, 235, 253, 80, 227, 152, 135, 183, 241, 89, 24, 137, 106, 144, 221>>>>,
      <<<<83, 79, 77, 69, 95, 83, 69, 67, 82, 69, 84>>, <<255, 255, 255, 255, 255, 255, 255, 255>>,
         <<28, 50, 229, 137, 92, 75, 0, 247, 50, 59, 249, 180, 170, 98, 143, 16, 128, 86, 168, 101, 150, 207, 229, 136, 154, 183, 202, 210, 45, 231, 64, 246, 243, 120, 129, 243, 208, 165, 14, 191, 98, 241, 101, 1, 127, 140, 77, 234, 47, 172, 232, 230, 179, 73, 251, 139, 33, 217, 199, 159, 170, 156, 199, 216>>>> }

\* func (otp *OneTimePassword) hmacSum(secret []byte, count uint64) []byte
\* for the keys and counters of the tables
hmacSum(o, secret, count) ==
    LET table == CASE o.Hash = "sha1" -> HmacSHA1
                   [] o.Hash = "sha256" -> HmacSHA256
                   [] o.Hash = "sha512" -> HmacSHA512
        row == CHOOSE r \in table : r[1] = secret /\ r[2] = count
    IN  row[3]

\* dt taking the offset from the high nibble of the last byte
dtHighNibble(hs) ==
    LET offset == hs[Len(hs)] \div 16
    IN  IF offset + 4 > Len(hs) THEN [panic |-> TRUE, p |-> <<>>]
        ELSE LET p == Slice(hs, offset, offset + 4)
             IN  [panic |-> FALSE, p |-> [p EXCEPT ![1] = p[1] % 128]]

\* func dt(hs []byte) []byte
\* slicing past the end of hs is a run-time panic
dt(hs) ==
    LET offset == hs[Len(hs)] % 16
    IN  IF offset + 4 > Len(hs) THEN [panic |-> TRUE, p |-> <<>>]
        ELSE LET p == Slice(hs, offset, offset + 4)
             IN  [panic |-> FALSE, p |-> [p EXCEPT ![1] = p[1] % 128]]

\* truncate without the reduction modulo 10^Digit
truncateNoMod(o, hs) ==
    LET d == dt(hs)
    IN  IF d.panic THEN [panic |-> TRUE, val |-> 0]
        ELSE LET sbits == d.p
                 snum == sbits[4] + sbits[3] * 256 + sbits[2] * 65536
                         + sbits[1] * 16777216
             IN  [panic |-> FALSE, val |-> snum]

\* func (otp *OneTimePassword) truncate(hs []byte) uint
\* uint(math.Pow(10, Digit)) is 0 for a negative Digit: division by zero
truncate(o, hs) ==
    LET d == dt(hs)
    IN  IF d.panic \/ o.Digit < 0 THEN [panic |-> TRUE, val |-> 0]
        ELSE LET sbits == d.p
                 snum == sbits[4] + sbits[3] * 256 + sbits[2] * 65536
                         + sbits[1] * 16777216
             IN  [panic |-> FALSE, val |-> snum % Pow10(o.Digit)]

---------------------------------------------------------------------------
(* Time *)

\* time.Time.Unix(): whole seconds since the epoch, rounded down
Unix(t) == t.sec

\* t at or after u
NotBefore(t, u) == t.sec > u.sec \/ (t.sec = u.sec /\ t.nsec >= u.nsec)

\* now.Sub(base) for now at or after base, as whole seconds and nanoseconds
Sub(now, base) ==
    IF now.nsec >= base.nsec
    THEN [sec |-> now.sec - base.sec, nsec |-> now.nsec - base.nsec]
    ELSE [sec |-> now.sec - base.sec - 1, nsec |-> now.nsec - base.nsec + NanosPerSec]

\* half the distance between float64 neighbours at sec, in whole nanoseconds:
\* floor(10^9 * 2^(k-53)) for 2^k <= sec < 2^(k+1), sec below 2^31
HalfUlpNanos(sec) ==
    IF sec < 16777216 THEN 0
    ELSE IF sec < 33554432 THEN 1
    ELSE IF sec < 67108864 THEN 3
    ELSE IF sec < 134217728 THEN 7
    ELSE IF sec < 268435456 THEN 14
    ELSE IF sec < 536870912 THEN 29
    ELSE IF sec < 1073741824 THEN 59
    ELSE 119

\* uint64(d.Seconds()) for the duration d of sec seconds and nsec nanoseconds:
\* Seconds() is float64(sec) + float64(nsec)/1e9, which rounds up to sec + 1
\* when nsec is within half a float64 step of the next second
secondsToUint64(d) ==
    IF NanosPerSec - d.nsec <= HalfUlpNanos(d.sec) THEN d.sec + 1 ELSE d.sec

\* whether float64 holds step.Seconds() exactly: a whole number of seconds
\* plus a multiple of 1/8 second
ExactSeconds(step) == (8 * (step % Second)) % Second = 0

\* floor(elapsed seconds / step), computed without leaving 32 bits
FloorDiv(elapsed, step) ==
    (elapsed \div step) * Second + ((elapsed % step) * Second) \div step

RECURSIVE Pow2Below(_)
\* the largest power of two not above q, for q >= 1
Pow2Below(q) == IF q < 2 THEN 1 ELSE 2 * Pow2Below(q \div 2)

\* uint64(float64(elapsed) / step.Seconds()) for a positive step and
\* elapsed >= 0, elapsed * step below 2^52: the floor q of the exact quotient,
\* except where the quotient is integral and float64 holds step.Seconds()
\* inexactly.  For the step of 1.1 s, the one such step of the model, the
\* float64 is 1.1 * (1 + 4 / (11 * 2^52)), and the quotient computed from it
\* rounds to the float64 just below q, hence to q - 1, when q * 4 / (11 * 2^52)
\* is more than half the float64 spacing at q, that is when 8 * q exceeds
\* 11 * Pow2Below(q)
quotient(elapsed, step) ==
    LET q == FloorDiv(elapsed, step)
        integral == ((elapsed % step) * Second) % step = 0
    IN  CASE ExactSeconds(step) \/ ~integral \/ q = 0 -> q
          [] step = Second + Second \div 10 /\ integral /\ q > 0 ->
                IF 8 * q > 11 * Pow2Below(q) THEN q - 1 ELSE q

\* uint64(+Inf) and uint64(NaN): Go leaves the value to the implementation;
\* 2^63 (amd64), 2^64 - 1 and 0 (arm64) are the values of the gc compiler
ImplDefinedCounts ==
    { <<128, 0, 0, 0, 0, 0, 0, 0>>, <<255, 255, 255, 255, 255, 255, 255, 255>>,
      <<0, 0, 0, 0, 0, 0, 0, 0>> }

\* func (otp *OneTimePassword) steps(now time.Time) uint64
\* for now at or after BaseTime: the set of the counters the call can return,
\* one counter unless the step is zero
steps(o, now) ==
    LET elapsed == Unix(now) - Unix(o.BaseTime)
    IN  IF o.TimeStep = 0 THEN ImplDefinedCounts
        ELSE { U64(quotient(elapsed, o.TimeStep)) }

\* func (otp *OneTimePassword) GTimeLeft() int, the clock reading now
\* for now at or after BaseTime; a step below one second makes secStep zero
\* and the remainder a run-time panic
GTimeLeft(o, now) ==
    LET secsSinceBase == secondsToUint64(Sub(now, o.BaseTime))
        secStep == o.TimeStep \div Second
    IN  IF secStep = 0 THEN [panic |-> TRUE, val |-> 0]
        ELSE [panic |-> FALSE, val |-> secStep - (secsSinceBase % secStep)]

\* later seconds of the clock: 33 s, a whole number of steps of 1.1 s, and
\* 2^24 + 13 s, where float64 holds fewer than nine decimals of a second
LateSecs == {33, 16777229}

\* sub-second parts of the clock readings, in nanoseconds
SubSec == {0, 600000000, 999999999}

\* readings of time.Now() at or after the base time of o
Nows(o) ==
    { t \in [sec : (0..MaxSec) \cup LateSecs, nsec : SubSec] : NotBefore(t, o.BaseTime) }

---------------------------------------------------------------------------
(* base32.StdEncoding.DecodeString, as GOTP calls it *)

\* the RFC 4648 alphabet of base32.StdEncoding
Alphabet ==
    <<"A", "B", "C", "D", "E", "F", "G", "H", "I", "J", "K", "L", "M", "N", "O", "P",
      "Q", "R", "S", "T", "U", "V", "W", "X", "Y", "Z", "2", "3", "4", "5", "6", "7">>

\* the 5-bit value of a character, 255 for a character outside the alphabet
decodeMap(c) ==
    IF \E i \in 1..32 : Alphabet[i] = c
    THEN (CHOOSE i \in 1..32 : Alphabet[i] = c) - 1
    ELSE 255

QuantumErr == [err |-> TRUE, end |-> FALSE, dlen |-> 0, dbuf |-> <<>>, rest |-> <<>>]

RECURSIVE readQuantum(_, _, _)
\* one 8-character quantum: the values read so far are dbuf, j of them
readQuantum(src, j, dbuf) ==
    IF j = 8 THEN [err |-> FALSE, end |-> FALSE, dlen |-> 8, dbuf |-> dbuf, rest |-> src]
    ELSE IF src = <<>> THEN QuantumErr          \* the padding is missing
    ELSE LET in == Head(src)
             rest == Tail(src)
         IN  IF in = "=" /\ j >= 2 /\ Len(rest) < 8
             THEN IF Len(rest) + j < 7 THEN QuantumErr      \* not enough padding
                  ELSE IF \E k \in 0..(6 - j) : Len(rest) > k /\ rest[k + 1] # "="
                       THEN QuantumErr                      \* incorrect padding
                  ELSE IF j \in {3, 6} THEN QuantumErr      \* no valid data length
                  ELSE [err |-> FALSE, end |-> TRUE, dlen |-> j, dbuf |-> dbuf,
                        rest |-> rest]
             ELSE IF decodeMap(in) = 255 THEN QuantumErr    \* not in the alphabet
             ELSE readQuantum(rest, j + 1, Append(dbuf, decodeMap(in)))

\* the bytes of a quantum of dlen 5-bit values
pack(dbuf, dlen) ==
    LET d == [i \in 1..8 |-> IF i <= dlen THEN dbuf[i] ELSE 0]
        b == << (d[1] * 8 + d[2] \div 4) % 256,
                ((d[2] % 4) * 64 + d[3] * 2 + d[4] \div 16) % 256,
                ((d[4] % 16) * 16 + d[5] \div 2) % 256,
                ((d[5] % 2) * 128 + d[6] * 4 + d[7] \div 8) % 256,
                ((d[7] % 8) * 32 + d[8]) % 256 >>
        n == CASE dlen = 8 -> 5 [] dlen = 7 -> 4 [] dlen = 5 -> 3
               [] dlen = 4 -> 2 [] dlen = 2 -> 1
    IN  SubSeq(b, 1, n)

RECURSIVE decode(_, _)
\* the bytes decoded before the end or the first error, and whether it erred
decode(src, acc) ==
    IF src = <<>> THEN [bytes |-> acc, err |-> "nil"]
    ELSE LET q == readQuantum(src, 0, <<>>)
         IN  IF q.err THEN [bytes |-> acc, err |-> "illegal base32 data"]
             ELSE IF q.end THEN [bytes |-> acc \o pack(q.dbuf, q.dlen), err |-> "nil"]
             ELSE decode(q.rest, acc \o pack(q.dbuf, q.dlen))

\* base32.StdEncoding.DecodeString(secret): on an error the bytes of the
\* quanta decoded before it are returned with it
DecodeString(secret) == decode(secret, <<>>)

\* secrets handed to GOTP: data characters, then '=' characters or a '1'
SecretData ==
    <<"J", "B", "S", "W", "Y", "3", "D", "P", "E", "H", "P", "K", "3", "P", "X", "P">>
Secrets ==
    { SubSeq(SecretData, 1, k) \o Rep("=", p) : k \in 0..MaxData, p \in 0..MaxPad }
    \cup { SubSeq(SecretData, 1, k) \o <<"1">> : k \in 0..MaxData }

---------------------------------------------------------------------------
(* Pretty printing *)

RECURSIVE PPrintLoop(_, _, _)
\* the for loop of PPrint followed by the remainder
PPrintLoop(code, offset, pcode) ==
    IF Len(code) > offset + 3 - 1
    THEN PPrintLoop(code, offset + 3, pcode \o Slice(code, offset, offset + 3) \o <<" ">>)
    ELSE pcode \o Slice(code, offset, Len(code))

\* PPrint without the final strings.TrimSpace
PPrintNoTrim(code) == PPrintLoop(code, 0, <<>>)

\* func (otp *OneTimePassword) PPrint(code string) string
PPrint(code) == TrimSpace(PPrintLoop(code, 0, <<>>))

CodeChars == {"1", "2"}
RECURSIVE StringsUpTo(_, _)
\* the strings over chars of length at most n
StringsUpTo(chars, n) ==
    IF n = 0 THEN {<<>>}
    ELSE LET shorter == StringsUpTo(chars, n - 1)
         IN  shorter \cup { Append(s, c) : s \in shorter, c \in chars }

\* the strings handed to PPrint
Codes == StringsUpTo(CodeChars, MaxCodeLen)

---------------------------------------------------------------------------
(* The calls *)

\* the record of a call: its arguments, what it read and what it returned
NoCall ==
    [op |-> "none", digit |-> 0, secret |-> <<>>, count |-> U64(0), now |-> Epoch,
     hs |-> <<>>, in |-> <<>>, num |-> 0, str |-> <<>>, err |-> "nil",
     panic |-> FALSE]

\* keys handed to HOTP and TOTP: "SOME", "SOME_SECRET" of the examples and
\* "12345678901234567890" of the test vectors of RFC 4226
RawSecrets ==
    { <<83, 79, 77, 69>>,
      <<83, 79, 77, 69, 95, 83, 69, 67, 82, 69, 84>>,
      <<49, 50, 51, 52, 53, 54, 55, 56, 57, 48, 49, 50, 51, 52, 53, 54, 55, 56, 57, 48>> }

\* counters handed to HOTP; 123456 is the counter of Example_simple
Counters == (0..MaxCount) \cup {123456}

Init ==
    /\ otp = ZeroOTP
    /\ err = "nil"
    /\ pc = "start"
    /\ call = NoCall

\* otp, err = New(digit)
NewCall ==
    /\ pc = "start"
    /\ \E digit \in 0..MaxDigitArg :
          LET r == New(digit)
          IN  /\ otp' = r.otp
              /\ err' = r.err
              /\ pc' = IF r.err = "nil" THEN "ready" ELSE "failed"
              /\ call' = [NoCall EXCEPT !.op = "New", !.digit = digit]

\* otp = OneTimePassword{Digit: .., TimeStep: .., BaseTime: .., Hash: ..}
Literal ==
    /\ pc = "start"
    /\ \E o \in Literals :
          /\ otp' = o
          /\ err' = "nil"
          /\ pc' = "ready"
          /\ call' = [NoCall EXCEPT !.op = "Literal", !.digit = o.Digit]

\* otp.HOTP(secret, count)
HOTP ==
    /\ pc = "ready"
    /\ \E secret \in RawSecrets, n \in Counters :
       \E hs \in {hmacSum(otp, secret, U64(n))} :
          LET t == truncate(otp, hs)
          IN  call' = [NoCall EXCEPT !.op = "HOTP", !.secret = secret, !.count = U64(n),
                                      !.hs = hs, !.num = t.val, !.panic = t.panic]
    /\ pc' = "done"
    /\ UNCHANGED <<otp, err>>

\* otp.TOTP(secret), time.Now() returning now
TOTP ==
    /\ pc = "ready"
    /\ \E secret \in RawSecrets, now \in Nows(otp) :
       \E count \in steps(otp, now) :
       \E hs \in {hmacSum(otp, secret, count)} :
          LET t == truncate(otp, hs)
          IN  call' = [NoCall EXCEPT !.op = "TOTP", !.secret = secret, !.now = now,
                                      !.count = count, !.hs = hs, !.num = t.val,
                                      !.panic = t.panic]
    /\ pc' = "done"
    /\ UNCHANGED <<otp, err>>

\* otp.GOTP(secret), time.Now() returning now
GOTP ==
    /\ pc = "ready"
    /\ \E secret \in Secrets :
       \E dec \in {DecodeString(secret)}, now \in Nows(otp) :
       \E count \in steps(otp, now) :
       \E hs \in {hmacSum(otp, dec.bytes, count)} :
          LET t == truncate(otp, hs)
          IN  call' = [NoCall EXCEPT
                          !.op = "GOTP", !.in = secret, !.secret = dec.bytes,
                          !.now = now, !.count = count, !.hs = hs, !.num = t.val,
                          !.panic = t.panic,
                          !.str = IF t.panic THEN <<>>
                                  ELSE Sprintf06s(FormatUint(t.val)),
                          !.err = IF t.panic THEN "nil" ELSE dec.err]
    /\ pc' = "done"
    /\ UNCHANGED <<otp, err>>

\* otp.GTimeLeft(), the clock reading now
GTimeLeftCall ==
    /\ pc = "ready"
    /\ \E now \in Nows(otp) :
          LET r == GTimeLeft(otp, now)
          IN  call' = [NoCall EXCEPT !.op = "GTimeLeft", !.now = now, !.num = r.val,
                                      !.panic = r.panic]
    /\ pc' = "done"
    /\ UNCHANGED <<otp, err>>

\* otp.PPrint(code)
PPrintCall ==
    /\ pc = "ready"
    /\ \E code \in Codes :
          call' = [NoCall EXCEPT !.op = "PPrint", !.in = code, !.str = PPrint(code)]
    /\ pc' = "done"
    /\ UNCHANGED <<otp, err>>

\* the caller takes the result and is free to call again
Return ==
    /\ pc = "done"
    /\ ~call.panic
    /\ pc' = "ready"
    /\ call' = NoCall
    /\ UNCHANGED <<otp, err>>

Next ==
    \/ NewCall
    \/ Literal
    \/ HOTP
    \/ TOTP
    \/ GOTP
    \/ GTimeLeftCall
    \/ PPrintCall
    \/ Return

Spec == Init /\ [][Next]_vars

---------------------------------------------------------------------------
(* The claims *)

\* C1: New(digit) returns an error exactly when digit < 6 or digit > 9, and
\* for digit in 6..9 a configuration with Digit = digit, a 30 second step,
\* the Unix epoch as base time and SHA-1.
C1_NewContract ==
    call.op = "New" =>
        /\ (err # "nil") <=> (call.digit < 6 \/ call.digit > 9)
        /\ call.digit \in 6..9 =>
              otp = [Digit |-> call.digit, TimeStep |-> 30 * Second, BaseTime |-> Epoch,
                     Hash |-> "sha1"]

\* New(6), the smallest accepted digit count, has returned a configuration
C1_Witness == call.op = "New" /\ call.digit = 6 /\ err = "nil" /\ otp.Digit = 6

\* the 4 bytes of digest D at 0-based positions offset .. offset+3
Window(D) == LET offset == D[Len(D)] % 16 IN [i \in 1..4 |-> D[offset + i]]

\* the big-endian value of the 4 bytes w with the top bit of the first cleared
P31(w) == (((w[1] % 128) * 256 + w[2]) * 256 + w[3]) * 256 + w[4]

\* C2: with Digit d in 6..9, HOTP returns a value v with 0 <= v < 10^d.
C2_HOTPRange ==
    (call.op = "HOTP" /\ otp.Digit \in 6..9) =>
        /\ ~call.panic
        /\ 0 <= call.num
        /\ call.num < Pow10(otp.Digit)

\* HOTP with 9 digits on a digest whose 31-bit value is 10^9 or more
C2_Witness ==
    /\ call.op = "HOTP"
    /\ otp.Digit = 9
    /\ P31(Window(call.hs)) >= Pow10(9)

\* C3: for a digest D of 20, 32 or 64 bytes the offset (last byte & 0x0F)
\* leaves the 4 bytes D[offset..offset+4) inside D, their big-endian value P
\* with the top bit cleared is in 0..2^31-1, and HOTP returns P mod 10^Digit.
C3_DynamicTruncation ==
    call.op = "HOTP" =>
        LET D == call.hs
            offset == D[Len(D)] % 16
        IN  /\ Len(D) \in {20, 32, 64}
            /\ offset + 4 <= Len(D)
            /\ P31(Window(D)) >= 0
            /\ P31(Window(D)) \div 16777216 <= 127
            /\ ~call.panic
            /\ call.num = P31(Window(D)) % Pow10(otp.Digit)

\* HOTP on a SHA-1 digest with the largest offset, 15, a high nibble in the
\* last byte and the top bit of the window set
C3_Witness ==
    /\ call.op = "HOTP"
    /\ Len(call.hs) = 20
    /\ call.hs[20] % 16 = 15
    /\ call.hs[20] >= 16
    /\ call.hs[16] >= 128

\* floor of (d seconds and nanoseconds) / step
ExactSteps(d, step) ==
    (d.sec \div step) * Second
    + ((d.sec % step) * Second + d.nsec \div (NanosPerSec \div Second)) \div step

\* C4: for a query time at or after the base time, both allowed a sub-second
\* part, and a positive step, the counter TOTP uses is
\* floor((query_time - base_time) / step), a non-negative number.
C4_StepsFloorOfElapsed ==
    (call.op = "TOTP" /\ otp.TimeStep > 0) =>
        call.count = U64(ExactSteps(Sub(call.now, otp.BaseTime), otp.TimeStep))

\* C5: GOTP on a secret that is not valid base32 fails with a decode error
\* and returns the empty string with it.
C5_NoCodeWithError ==
    (call.op = "GOTP" /\ DecodeString(call.in).err # "nil") =>
        /\ call.err # "nil"
        /\ call.str = <<>>

\* C6: for a valid base32 secret, on whatever configuration, GOTP computes the
\* TOTP with 30 second steps from the epoch and SHA-1 and returns exactly 6
\* decimal digits, zero padded on the left.
C6_GOTPSixDigitsDefault ==
    (call.op = "GOTP" /\ DecodeString(call.in).err = "nil") =>
        /\ call.err = "nil"
        /\ call.count = U64(Unix(call.now) \div 30)
        /\ Len(call.hs) = 20
        /\ Len(call.str) = 6
        /\ \A i \in 1..Len(call.str) : \E d \in 1..10 : DigitChars[d] = call.str[i]
        /\ call.str = Sprintf06s(FormatUint(P31(Window(call.hs)) % Pow10(6)))

\* C7: with a step of a whole number s >= 1 of seconds, GTimeLeft returns
\* s - (whole seconds since base mod s), which lies in 1..s and is s when the
\* elapsed seconds are a multiple of s.
C7_TimeLeftRange ==
    (call.op = "GTimeLeft" /\ otp.TimeStep >= Second /\ otp.TimeStep % Second = 0) =>
        LET s == otp.TimeStep \div Second
            e == Sub(call.now, otp.BaseTime).sec
        IN  /\ ~call.panic
            /\ call.num = s - (e % s)
            /\ call.num \in 1..s
            /\ (e % s = 0) => call.num = s

\* C8: for a non-empty string s, PPrint(s) is the 3-character chunks of s from
\* the left and a last chunk of 1 or 2 characters when len(s) is no multiple
\* of 3, joined by one space each, with no space at either end; deleting the
\* spaces gives s back.
C8_PPrintGroups ==
    (call.op = "PPrint" /\ call.in # <<>>) =>
        LET s == call.in
            r == call.str
            groups == (Len(s) + 2) \div 3
            NotSpace(c) == c # " "
        IN  /\ Len(r) = Len(s) + groups - 1
            /\ \A i \in 1..Len(r) :
                  IF i % 4 = 0 THEN r[i] = " " ELSE r[i] = s[i - (i \div 4)]
            /\ r[1] # " "
            /\ r[Len(r)] # " "
            /\ SelectSeq(r, NotSpace) = s

\* PPrint of 6 characters has returned two groups of 3
C8_Witness ==
    /\ call.op = "PPrint"
    /\ call.in = <<"1", "2", "1", "2", "1", "2">>
    /\ call.str = <<"1", "2", "1", " ", "2", "1", "2">>

\* C9: every configuration whose methods can be called has Digit in 6..9 and
\* a step of at least one second, and no call divides by a zero step.
C9_ConfigurationValid ==
    pc \in {"ready", "done"} =>
        /\ otp.Digit \in 6..9
        /\ otp.TimeStep >= Second
        /\ ~call.panic

\* t plus n whole seconds
AddSeconds(t, n) == [t EXCEPT !.sec = t.sec + n]

\* C10: with a positive step and L the value of GTimeLeft at t, the counter
\* of TOTP at t + (L - 1) seconds is the counter at t and the counter at
\* t + L seconds is one more.
C10_TimeLeftMatchesCounter ==
    (call.op = "GTimeLeft" /\ otp.TimeStep > 0) =>
        LET at(n) == quotient(Unix(AddSeconds(call.now, n)) - Unix(otp.BaseTime),
                              otp.TimeStep)
        IN  /\ ~call.panic
            /\ at(call.num - 1) = at(0)
            /\ at(call.num) = at(0) + 1

============================================================================
